---- MODULE Spec2Model ----
(***************************************************************************)
(* Model of the garden connection/ordering subsystem: GardenService        *)
(* (garden-core/src/services/garden.rs) running on the in-memory           *)
(* repositories of garden-core/src/ports/memory.rs that share their three  *)
(* stores through TestFixture.                                             *)
(*                                                                         *)
(* Every repository method takes its store's RwLock for the whole call, so *)
(* one repository call is one atomic step.  A service operation is a       *)
(* sequence of such steps (one per .await).  Each step is written as a     *)
(* function from (stores, caller record) to (stores, caller record);       *)
(* SeqSpec runs an operation's steps to the end in one action (one caller  *)
(* at a time), RaceSpec, BatchSpec and RepoBatchSpec take them one by one  *)
(* so that two callers interleave.  ReorderSpec, BlockBatchSpec,           *)
(* BlockUpdateSpec and ChannelSpec are one caller's runs of a few          *)
(* operations with richer inputs.  AppendSpec and UpdateRaceSpec are two   *)
(* callers appending to one channel and updating one block or channel;     *)
(* ValidationSpec and ListSpec are one caller's validating calls and       *)
(* listings.  ErrorSpec, ContentSpec and MediaSpec apply the Tauri error   *)
(* conversion, validation.rs and MediaService::import_from_url to inputs   *)
(* drawn from bounded sets.  The SQLite repositories of garden-db are      *)
(* modelled as operators on the same stores.  NewBlockSpec creates blocks  *)
(* from NewBlocks with metadata, SqliteRowSpec reads stored rows back      *)
(* through BlockRow::into_block, PageSpec, CommandSpec and FieldUpdateSpec *)
(* apply Page, channel_list and FieldUpdate::is_update to bounded inputs.  *)
(* LockSpec splits every repository call into the taking of its RwLock     *)
(* guards and the call itself; LockLiveSpec adds fair scheduling.          *)
(* Blocks carry a Text body and their five metadata fields, channels their *)
(* title and description; created_at and updated_at are readings of the    *)
(* clock `now`.  connected_at influences no modelled decision and is left  *)
(* out.                                                                    *)
(***************************************************************************)
EXTENDS Integers, Sequences, FiniteSets, TLC

\* -------------------------------------------------------------------------
\* Bounds
\* -------------------------------------------------------------------------
MaxBlocks == 2
MaxChannels == 2
MaxPos == 0
MaxBatch == 2
MaxConns == 2
MaxClock == 1

\* -------------------------------------------------------------------------
\* Program constants
\* -------------------------------------------------------------------------
I32Max == 2147483647
I32Min == -I32Max - 1

Procs == {"p1", "p2"}
SeqProcs == {"p1"}

Positions == (-1..MaxPos) \cup {I32Max}
\* positions the model lets the store hold: the inputs, one append after the
\* largest small input, and the value an overflowing append wraps to
StoredPositions == (-1..(MaxPos + 1)) \cup {I32Max, I32Min}
\* Option<i32>: <<>> is None, <<p>> is Some(p)
None == <<>>
Some(p) == <<p>>
OptPositions == {None} \cup {Some(p) : p \in Positions}
\* an id that no store ever holds (a BlockId::new() / ChannelId::new() the
\* caller made up)
UnknownId == 0

\* Strings are sequences of characters so that trim() can be computed.
Strs == {<<>>, <<" ">>, <<"a">>, <<" ", "a">>}

\* The bodies and titles of the sequential runs: empty, blank and one valid.
SeqStrs == {<<>>, <<" ">>, <<"a">>}

\* -------------------------------------------------------------------------
\* Pure helpers
\* -------------------------------------------------------------------------
RECURSIVE TrimStart(_)
TrimStart(s) ==
    IF s = <<>> THEN <<>>
    ELSE IF Head(s) = " " THEN TrimStart(Tail(s)) ELSE s

RECURSIVE TrimEnd(_)
TrimEnd(s) ==
    IF s = <<>> THEN <<>>
    ELSE IF s[Len(s)] = " " THEN TrimEnd(SubSeq(s, 1, Len(s) - 1)) ELSE s

Trim(s) == TrimEnd(TrimStart(s))

\* a title check that forgets to trim (fault injected to show that C20
\* depends on the trim)
validate_channel_title_untrimmed(title) ==
    IF title = <<>> THEN "InvalidInput" ELSE "Ok"

validate_channel_title(title) ==
    IF Trim(title) = <<>> THEN "InvalidInput" ELSE "Ok"

validate_text(body) ==
    IF Trim(body) = <<>> THEN "InvalidInput" ELSE "Ok"

\* FieldUpdate<T>: Keep, Clear, Set(value)
Keep == [action |-> "keep", value |-> <<>>]
Clear == [action |-> "clear", value |-> <<>>]
Set(value) == [action |-> "set", value |-> value]

\* an apply whose Set leaves a present value as it is (fault injected to
\* show that C18 depends on Set overwriting)
apply_set_when_absent(self, current) ==
    CASE self.action = "keep" -> current
      [] self.action = "clear" -> None
      [] self.action = "set" ->
            IF current = None THEN Some(self.value) ELSE current

\* FieldUpdate::apply(self, current)
apply(self, current) ==
    CASE self.action = "keep" -> current
      [] self.action = "clear" -> None
      [] self.action = "set" -> Some(self.value)

\* an update that wipes the fields the payload leaves out (fault injected
\* to show that C19 depends on omitted fields being kept)
ApplyElseClear(field, current) ==
    IF field = None THEN None ELSE apply(field[1], current)

\* if let Some(field_update) = update.field { field_update.apply(current) }
ApplyIfSome(field, current) ==
    IF field = None THEN current ELSE apply(field[1], current)

\* the values a metadata field or a description is set to
MetaStrs == {<<"a">>, <<"b">>}
FieldUpdates == {Keep, Clear} \cup {Set(v) : v \in MetaStrs}
MetaFields == {"source_url", "source_title", "creator", "original_date",
               "notes"}

\* i32 addition of a non-negative b: the mathematical sum when it fits;
\* otherwise the build decides (overflow checks panic, release builds wrap).
AddOverflows(a, b) == b > 0 /\ a > I32Max - b

AddWrapped(a, b) ==
    IF AddOverflows(a, b) THEN ((a - I32Max) + (b - 1)) + I32Min ELSE a + b

Connection(b, c, pos) == [block_id |-> b, channel_id |-> c, position |-> pos]

SamePair(x, b, c) == x.block_id = b /\ x.channel_id = c

RECURSIVE SelectSeqBy(_, _, _)
\* the subsequence of s whose elements are connections of channel c (kind =
\* "channel") or of block c (kind = "block"), in store order
SelectSeqBy(s, kind, id) ==
    IF s = <<>> THEN <<>>
    ELSE LET h == Head(s)
             keep == IF kind = "channel" THEN h.channel_id = id
                     ELSE h.block_id = id
         IN  IF keep THEN <<h>> \o SelectSeqBy(Tail(s), kind, id)
             ELSE SelectSeqBy(Tail(s), kind, id)

RECURSIVE MaxPosition(_, _)
\* fold of Iterator::max over the positions of s; acc is the Option so far
MaxPosition(s, acc) ==
    IF s = <<>> THEN acc
    ELSE MaxPosition(Tail(s),
                     IF acc = None THEN Some(Head(s).position)
                     ELSE IF Head(s).position >= acc[1]
                          THEN Some(Head(s).position) ELSE acc)

RECURSIVE InsertSorted(_, _)
InsertSorted(sorted, x) ==
    IF sorted = <<>> THEN <<x>>
    ELSE IF x.position < Head(sorted).position THEN <<x>> \o sorted
    ELSE <<Head(sorted)>> \o InsertSorted(Tail(sorted), x)

RECURSIVE StableSortByPosition(_)
\* slice::sort_by_key is stable: equal keys keep their input order
StableSortByPosition(s) ==
    IF s = <<>> THEN <<>>
    ELSE InsertSorted(StableSortByPosition(SubSeq(s, 1, Len(s) - 1)), s[Len(s)])

\* -------------------------------------------------------------------------
\* Repository operations (memory.rs); each is one atomic call
\* -------------------------------------------------------------------------
HasConnection(conns, b, c) ==
    \E i \in 1..Len(conns) : SamePair(conns[i], b, c)

\* InMemoryConnectionRepository::get_connection: the first match, if any
RepoGetConnection(conns, b, c) ==
    IF HasConnection(conns, b, c)
    THEN LET i == CHOOSE i \in 1..Len(conns) :
                     /\ SamePair(conns[i], b, c)
                     /\ \A j \in 1..(i - 1) : ~SamePair(conns[j], b, c)
         IN  <<conns[i]>>
    ELSE <<>>

\* a connect that pushes without looking for the pair (fault injected to show
\* that C2 depends on the duplicate check)
RepoConnectUnchecked(conns, b, c, pos) ==
    [err |-> "Ok", conns |-> Append(conns, Connection(b, c, pos))]

\* InMemoryConnectionRepository::connect
RepoConnect(conns, b, c, pos) ==
    IF HasConnection(conns, b, c)
    THEN [err |-> "Duplicate", conns |-> conns]
    ELSE [err |-> "Ok", conns |-> Append(conns, Connection(b, c, pos))]

RECURSIVE RepoConnectBatchOneByOne(_, _)
\* a connect_batch that checks and pushes tuple by tuple, so that a duplicate
\* found late leaves the earlier tuples written (fault injected to show that
\* C10 depends on checking before pushing)
RepoConnectBatchOneByOne(conns, batch) ==
    IF batch = <<>> THEN [err |-> "Ok", conns |-> conns]
    ELSE IF HasConnection(conns, Head(batch).block_id, Head(batch).channel_id)
    THEN [err |-> "Duplicate", conns |-> conns]
    ELSE RepoConnectBatchOneByOne(Append(conns, Head(batch)), Tail(batch))

\* a connect_batch that leaves out the tuples whose pair is stored and pushes
\* the others (fault injected to show that C11 depends on the whole batch
\* being refused)
RepoConnectBatchSkipDuplicates(conns, batch) ==
    [err |-> "Ok",
     conns |-> conns \o SelectSeq(batch, LAMBDA x :
                   ~HasConnection(conns, x.block_id, x.channel_id))]

\* InMemoryConnectionRepository::connect_batch: every tuple is checked
\* against the store as it was before the call, then all are pushed
RepoConnectBatch(conns, batch) ==
    IF \E k \in 1..Len(batch) :
           HasConnection(conns, batch[k].block_id, batch[k].channel_id)
    THEN [err |-> "Duplicate", conns |-> conns]
    ELSE [err |-> "Ok", conns |-> conns \o batch]

\* a disconnect that drops the block from every channel (fault injected to
\* show that C17 depends on disconnect removing the named pair only)
RepoDisconnectEverywhere(conns, b, c) ==
    IF ~HasConnection(conns, b, c)
    THEN [err |-> "NotFound", conns |-> conns]
    ELSE [err |-> "Ok",
          conns |-> SelectSeq(conns, LAMBDA x : x.block_id # b)]

\* a disconnect that reports success and leaves the connection stored (fault
\* injected to show that C13 depends on the removal)
RepoDisconnectLeavesResidue(conns, b, c) ==
    IF HasConnection(conns, b, c)
    THEN [err |-> "Ok", conns |-> conns]
    ELSE [err |-> "NotFound", conns |-> conns]

\* InMemoryConnectionRepository::disconnect: retain() drops every match
RepoDisconnect(conns, b, c) ==
    LET kept == SelectSeq(conns, LAMBDA x : ~SamePair(x, b, c))
    IN  IF Len(kept) = Len(conns)
        THEN [err |-> "NotFound", conns |-> conns]
        ELSE [err |-> "Ok", conns |-> kept]

\* a reorder that moves every connection of the channel to the new position
\* (fault injected to show that C14 depends on the other connections being
\* left alone)
RepoReorderWholeChannel(conns, c, b, new_position) ==
    IF ~HasConnection(conns, b, c)
    THEN [err |-> "NotFound", conns |-> conns]
    ELSE [err |-> "Ok",
          conns |-> [i \in 1..Len(conns) |->
                        IF conns[i].channel_id = c
                        THEN [conns[i] EXCEPT !.position = new_position]
                        ELSE conns[i]]]

\* InMemoryConnectionRepository::reorder: overwrites the first match
RepoReorder(conns, c, b, new_position) ==
    IF ~HasConnection(conns, b, c)
    THEN [err |-> "NotFound", conns |-> conns]
    ELSE LET i == CHOOSE i \in 1..Len(conns) :
                     /\ SamePair(conns[i], b, c)
                     /\ \A j \in 1..(i - 1) : ~SamePair(conns[j], b, c)
         IN  [err |-> "Ok",
              conns |-> [conns EXCEPT ![i].position = new_position]]

\* InMemoryConnectionRepository::next_position: max().unwrap_or(-1) + 1.
\* checks: the build panics on overflow.  <<n>>, or <<>> for a panic.
RepoNextPosition(conns, c, checks) ==
    LET m == MaxPosition(SelectSeqBy(conns, "channel", c), None)
        max_pos == IF m = None THEN -1 ELSE m[1]
    IN  IF AddOverflows(max_pos, 1) /\ checks THEN <<>>
        ELSE <<AddWrapped(max_pos, 1)>>

\* InMemoryConnectionRepository::get_blocks_in_channel: a (block, position)
\* entry for each connection of the channel whose block is in the block
\* store, stably sorted by position
RepoGetBlocksInChannel(conns, blks, c) ==
    LET s == SelectSeq(SelectSeqBy(conns, "channel", c),
                       LAMBDA x : x.block_id \in blks)
    IN  StableSortByPosition(
            [i \in 1..Len(s) |->
                [block_id |-> s[i].block_id, position |-> s[i].position]])

\* InMemoryConnectionRepository::get_channels_for_block: the channels, in
\* store order, of the block's connections whose channel is stored
RepoGetChannelsForBlock(conns, chans, b) ==
    LET s == SelectSeq(SelectSeqBy(conns, "block", b),
                       LAMBDA x : x.channel_id \in chans)
    IN  [i \in 1..Len(s) |-> s[i].channel_id]

\* HashMap::insert and HashMap::remove on the stored values
MapPut(m, k, v) == [x \in DOMAIN m \cup {k} |-> IF x = k THEN v ELSE m[x]]
MapDel(m, k) == [x \in DOMAIN m \ {k} |-> m[x]]
EmptyMap == [x \in {} |-> x]

\* InMemoryChannelRepository::create / InMemoryBlockRepository::create
RepoCreate(ids, id) ==
    IF id \in ids THEN [err |-> "Duplicate", ids |-> ids]
    ELSE [err |-> "Ok", ids |-> ids \cup {id}]

\* InMemoryChannelRepository::update / InMemoryBlockRepository::update
RepoUpdate(ids, rows, row) ==
    IF row.id \notin ids THEN [err |-> "NotFound", rows |-> rows]
    ELSE [err |-> "Ok", rows |-> MapPut(rows, row.id, row)]

\* InMemoryBlockRepository::create_batch: every id is looked up, then all
\* the blocks are inserted
RepoCreateBatch(ids, rows, new) ==
    IF \E k \in 1..Len(new) : new[k].id \in ids
    THEN [err |-> "Duplicate", ids |-> ids, rows |-> rows]
    ELSE [err |-> "Ok",
          ids |-> ids \cup {new[k].id : k \in 1..Len(new)},
          rows |-> [x \in DOMAIN rows \cup {new[k].id : k \in 1..Len(new)} |->
                       IF \E k \in 1..Len(new) : new[k].id = x
                       THEN new[CHOOSE k \in 1..Len(new) :
                                    /\ new[k].id = x
                                    /\ \A j \in (k + 1)..Len(new) :
                                           new[j].id # x]
                       ELSE rows[x]]]

\* InMemoryChannelRepository::get / InMemoryBlockRepository::get (is_some)
RepoGet(ids, id) == id \in ids

\* InMemoryChannelRepository::delete: removes the channel and nothing else
RepoDeleteChannel(chans, conns, id) ==
    IF id \in chans
    THEN [err |-> "Ok", channels |-> chans \ {id}, conns |-> conns]
    ELSE [err |-> "NotFound", channels |-> chans, conns |-> conns]

\* InMemoryBlockRepository::delete: removes the block and nothing else
RepoDeleteBlock(blks, conns, id) ==
    IF id \in blks
    THEN [err |-> "Ok", blocks |-> blks \ {id}, conns |-> conns]
    ELSE [err |-> "NotFound", blocks |-> blks, conns |-> conns]

\* -------------------------------------------------------------------------
\* State
\* -------------------------------------------------------------------------
VARIABLES
    blocks,           \* SharedBlockStore: the ids (keys) of the stored blocks
    channels,         \* SharedChannelStore: the ids (keys) of the channels
    block_rows,       \* SharedBlockStore: the stored Block of every key
    channel_rows,     \* SharedChannelStore: the stored Channel of every key
    connections,      \* SharedConnectionStore: the Vec<Connection>
    now,              \* what Utc::now() returns
    next_block_id,    \* the id the next BlockId::new() yields (ids are fresh)
    next_channel_id,  \* the id the next ChannelId::new() yields
    procs             \* per caller: the operation it runs, its place in it,
                      \* its arguments, locals and result

vars ==
    <<blocks, channels, block_rows, channel_rows, connections, now,
      next_block_id, next_channel_id, procs>>

Store ==
    [blocks |-> blocks, channels |-> channels, block_rows |-> block_rows,
     channel_rows |-> channel_rows, connections |-> connections, now |-> now,
     next_block_id |-> next_block_id, next_channel_id |-> next_channel_id]

\* Block::new(content): fresh timestamps, every metadata field None
BlockRow(id, content, t) ==
    [id |-> id, content |-> content, created_at |-> t, updated_at |-> t,
     source_url |-> None, source_title |-> None, creator |-> None,
     original_date |-> None, notes |-> None]

\* Channel::new(title) / Channel::with_description(title, description)
ChannelRow(id, title, description, t) ==
    [id |-> id, title |-> title, description |-> description,
     created_at |-> t, updated_at |-> t]

NoResult == [tag |-> "None", val |-> <<>>]

\* BlockUpdate::default() and ChannelUpdate::default()
NoBlockUpdate ==
    [content |-> None, source_url |-> None, source_title |-> None,
     creator |-> None, original_date |-> None, notes |-> None]
NoChannelUpdate == [title |-> None, description |-> Keep]

IdleProc ==
    [op |-> "idle", pc |-> "idle", block_id |-> UnknownId,
     channel_id |-> UnknownId, block_ids |-> <<>>, position |-> None,
     text |-> <<>>, description |-> None, contents |-> <<>>,
     block_update |-> NoBlockUpdate, channel_update |-> NoChannelUpdate,
     row |-> None, i |-> 0, pos |-> None, result |-> NoResult,
     locks |-> <<>>]

\* the caller record at the entry of an operation
Call(op, pc, b, c, bs, position, text) ==
    [IdleProc EXCEPT !.op = op, !.pc = pc, !.block_id = b, !.channel_id = c,
                     !.block_ids = bs, !.position = position, !.text = text]

Out(st, pr) == [st |-> st, pr |-> pr]

Finish(pr, tag, val) ==
    [pr EXCEPT !.pc = "done", !.result = [tag |-> tag, val |-> val]]

Goto(pr, pc) == [pr EXCEPT !.pc = pc]

\* what DomainError::ConnectionNotFound(block_id, channel_id) carries
ConnectionNotFound(b, c) == <<[block_id |-> b, channel_id |-> c]>>

Init ==
    /\ blocks = {}
    /\ channels = {}
    /\ block_rows = EmptyMap
    /\ channel_rows = EmptyMap
    /\ connections = <<>>
    /\ now = 0
    /\ next_block_id = 1
    /\ next_channel_id = 1
    /\ procs = [p \in Procs |-> IdleProc]

\* -------------------------------------------------------------------------
\* GardenService, step by step
\* -------------------------------------------------------------------------
\* create_channel: validate the title, Channel::new, channels.create
create_channel(st, pr) ==
    IF validate_channel_title(pr.text) # "Ok"
    THEN Out(st, Finish(pr, "InvalidInput", <<>>))
    ELSE LET id == st.next_channel_id
             r == RepoCreate(st.channels, id)
             row == ChannelRow(id, pr.text, pr.description, st.now)
             st1 == [st EXCEPT !.next_channel_id = id + 1, !.channels = r.ids,
                               !.channel_rows =
                                   IF r.err = "Ok" THEN MapPut(@, id, row)
                                   ELSE @]
         IN  IF r.err = "Ok" THEN Out(st1, Finish(pr, "Ok", <<id>>))
             ELSE Out(st1, Finish(pr, "RepoDuplicate", <<>>))

\* create_block that stores the block before it validates the content
create_block_validates_last(st, pr) ==
    LET id == st.next_block_id
        r == RepoCreate(st.blocks, id)
        row == BlockRow(id, pr.text, st.now)
        st1 == [st EXCEPT !.next_block_id = id + 1, !.blocks = r.ids,
                          !.block_rows =
                              IF r.err = "Ok" THEN MapPut(@, id, row)
                              ELSE @]
    IN  IF r.err # "Ok" THEN Out(st1, Finish(pr, "RepoDuplicate", <<>>))
        ELSE IF validate_text(pr.text) # "Ok"
        THEN Out(st1, Finish(pr, "InvalidInput", <<>>))
        ELSE Out(st1, Finish(pr, "Ok", <<id>>))

\* create_block with Text content: validate, Block::new, blocks.create
create_block(st, pr) ==
    IF validate_text(pr.text) # "Ok"
    THEN Out(st, Finish(pr, "InvalidInput", <<>>))
    ELSE LET id == st.next_block_id
             r == RepoCreate(st.blocks, id)
             row == BlockRow(id, pr.text, st.now)
             st1 == [st EXCEPT !.next_block_id = id + 1, !.blocks = r.ids,
                               !.block_rows =
                                   IF r.err = "Ok" THEN MapPut(@, id, row)
                                   ELSE @]
         IN  IF r.err = "Ok" THEN Out(st1, Finish(pr, "Ok", <<id>>))
             ELSE Out(st1, Finish(pr, "RepoDuplicate", <<>>))

\* a create_blocks that validates and stores item by item, so that the valid
\* items before the first invalid one stay stored (fault injected to show
\* that C12 depends on validating the whole batch first)
create_blocks_item_by_item(st, pr) ==
    LET bad == {k \in 1..Len(pr.contents) :
                   validate_text(pr.contents[k]) # "Ok"}
        n == IF bad = {} THEN Len(pr.contents)
             ELSE (CHOOSE k \in bad : \A j \in bad : k <= j) - 1
        new == [k \in 1..n |->
                   BlockRow(st.next_block_id + (k - 1), pr.contents[k],
                            st.now)]
        r == RepoCreateBatch(st.blocks, st.block_rows, new)
        st1 == [st EXCEPT !.next_block_id = @ + n, !.blocks = r.ids,
                          !.block_rows = r.rows]
    IN  IF bad # {} THEN Out(st1, Finish(pr, "InvalidInput", <<>>))
        ELSE IF r.err = "Ok" THEN Out(st1, Finish(pr, "Ok", new))
        ELSE Out(st1, Finish(pr, "RepoDuplicate", <<>>))

\* create_blocks with Text contents: every item is validated, then the
\* blocks are built and blocks.create_batch(&blocks) stores them
create_blocks(st, pr) ==
    IF \E k \in 1..Len(pr.contents) : validate_text(pr.contents[k]) # "Ok"
    THEN Out(st, Finish(pr, "InvalidInput", <<>>))
    ELSE LET n == Len(pr.contents)
             new == [k \in 1..n |->
                        BlockRow(st.next_block_id + (k - 1), pr.contents[k],
                                 st.now)]
             r == RepoCreateBatch(st.blocks, st.block_rows, new)
             st1 == [st EXCEPT !.next_block_id = @ + n, !.blocks = r.ids,
                               !.block_rows = r.rows]
         IN  IF r.err = "Ok" THEN Out(st1, Finish(pr, "Ok", new))
             ELSE Out(st1, Finish(pr, "RepoDuplicate", <<>>))

\* BlockRepository::create_batch called on the repository itself, with
\* blocks whose ids the caller chose
repo_create_batch(st, pr) ==
    LET new == [k \in 1..Len(pr.block_ids) |->
                   BlockRow(pr.block_ids[k], pr.text, st.now)]
        r == RepoCreateBatch(st.blocks, st.block_rows, new)
    IN  Out([st EXCEPT !.blocks = r.ids, !.block_rows = r.rows],
            Finish(pr, IF r.err = "Ok" THEN "Ok" ELSE "RepoDuplicate", <<>>))

\* FieldUpdate::apply called on its own: self is passed as the description
\* update and current as the description
field_update_apply(st, pr) ==
    Out(st, Finish(pr, "Ok", apply(pr.channel_update.description,
                                   pr.description)))

\* update_channel: get_channel(id)?, the title when given is validated and
\* set, the description update is applied, updated_at = Utc::now()
update_channel_get(st, pr) ==
    IF ~RepoGet(st.channels, pr.channel_id)
    THEN Out(st, Finish(pr, "ChannelNotFound", <<>>))
    ELSE LET channel == st.channel_rows[pr.channel_id]
             update == pr.channel_update
         IN  IF update.title # None
                /\ validate_channel_title(update.title[1]) # "Ok"
             THEN Out(st, Finish(pr, "InvalidInput", <<>>))
             ELSE Out(st, [pr EXCEPT
                     !.pc = "update",
                     !.row = Some([channel EXCEPT
                         !.title = IF update.title # None
                                   THEN update.title[1] ELSE @,
                         !.description = apply(update.description, @),
                         !.updated_at = st.now])])

\* update_channel: channels.update(&channel)?
update_channel_update(st, pr) ==
    LET r == RepoUpdate(st.channels, st.channel_rows, pr.row[1])
    IN  IF r.err = "Ok"
        THEN Out([st EXCEPT !.channel_rows = r.rows],
                 Finish(pr, "Ok", pr.row))
        ELSE Out(st, Finish(pr, "RepoNotFound", <<>>))

\* update_block: get_block(id)?, the content when given is validated and
\* set, each metadata update that is given is applied, updated_at = now
update_block_get(st, pr) ==
    IF ~RepoGet(st.blocks, pr.block_id)
    THEN Out(st, Finish(pr, "BlockNotFound", <<>>))
    ELSE LET block == st.block_rows[pr.block_id]
             update == pr.block_update
         IN  IF update.content # None
                /\ validate_text(update.content[1]) # "Ok"
             THEN Out(st, Finish(pr, "InvalidInput", <<>>))
             ELSE Out(st, [pr EXCEPT
                     !.pc = "update",
                     !.row = Some([block EXCEPT
                         !.content = IF update.content # None
                                     THEN update.content[1] ELSE @,
                         !.source_url = ApplyIfSome(update.source_url, @),
                         !.source_title = ApplyIfSome(update.source_title, @),
                         !.creator = ApplyIfSome(update.creator, @),
                         !.original_date =
                             ApplyIfSome(update.original_date, @),
                         !.notes = ApplyIfSome(update.notes, @),
                         !.updated_at = st.now])])

\* update_block: blocks.update(&block)?
update_block_update(st, pr) ==
    LET r == RepoUpdate(st.blocks, st.block_rows, pr.row[1])
    IN  IF r.err = "Ok"
        THEN Out([st EXCEPT !.block_rows = r.rows], Finish(pr, "Ok", pr.row))
        ELSE Out(st, Finish(pr, "RepoNotFound", <<>>))

\* delete_channel: get_channel(id)?
delete_channel_get(st, pr) ==
    IF RepoGet(st.channels, pr.channel_id) THEN Out(st, Goto(pr, "delete"))
    ELSE Out(st, Finish(pr, "ChannelNotFound", <<>>))

\* delete_channel: channels.delete(id)?
delete_channel_delete(st, pr) ==
    LET r == RepoDeleteChannel(st.channels, st.connections, pr.channel_id)
        st1 == [st EXCEPT !.channels = r.channels, !.connections = r.conns,
                          !.channel_rows = MapDel(@, pr.channel_id)]
    IN  IF r.err = "Ok" THEN Out(st1, Finish(pr, "Ok", <<>>))
        ELSE Out(st1, Finish(pr, "RepoNotFound", <<>>))

\* delete_block: get_block(id)?
delete_block_get(st, pr) ==
    IF RepoGet(st.blocks, pr.block_id) THEN Out(st, Goto(pr, "delete"))
    ELSE Out(st, Finish(pr, "BlockNotFound", <<>>))

\* delete_block: blocks.delete(id)?
delete_block_delete(st, pr) ==
    LET r == RepoDeleteBlock(st.blocks, st.connections, pr.block_id)
        st1 == [st EXCEPT !.blocks = r.blocks, !.connections = r.conns,
                          !.block_rows = MapDel(@, pr.block_id)]
    IN  IF r.err = "Ok" THEN Out(st1, Finish(pr, "Ok", <<>>))
        ELSE Out(st1, Finish(pr, "RepoNotFound", <<>>))

\* a connect_block that looks for the channel before the block (fault
\* injected to show that C16 depends on the order of the checks)
connect_block_channel_first(st, pr) ==
    IF ~RepoGet(st.channels, pr.channel_id)
    THEN Out(st, Finish(pr, "ChannelNotFound", <<>>))
    ELSE IF RepoGet(st.blocks, pr.block_id)
    THEN Out(st, Goto(pr, "get_channel"))
    ELSE Out(st, Finish(pr, "BlockNotFound", <<>>))

\* connect_block: get_block(block_id)?
connect_block_get_block(st, pr) ==
    IF RepoGet(st.blocks, pr.block_id) THEN Out(st, Goto(pr, "get_channel"))
    ELSE Out(st, Finish(pr, "BlockNotFound", <<>>))

\* connect_block: get_channel(channel_id)?
connect_block_get_channel(st, pr) ==
    IF RepoGet(st.channels, pr.channel_id)
    THEN Out(st, Goto(pr, "get_connection"))
    ELSE Out(st, Finish(pr, "ChannelNotFound", <<>>))

\* connect_block: get_connection(..).is_some(), then the match on position
connect_block_check(st, pr) ==
    IF RepoGetConnection(st.connections, pr.block_id, pr.channel_id) # <<>>
    THEN Out(st, Finish(pr, "InvalidInput", <<>>))
    ELSE IF pr.position # None
    THEN Out(st, [pr EXCEPT !.pc = "connect", !.pos = pr.position])
    ELSE Out(st, Goto(pr, "next_position"))

\* connect_block, position None: next_position(channel_id)?
connect_block_next_position(st, pr, checks) ==
    LET n == RepoNextPosition(st.connections, pr.channel_id, checks)
    IN  IF n = <<>> THEN Out(st, Finish(pr, "Panic", <<>>))
        ELSE Out(st, [pr EXCEPT !.pc = "connect", !.pos = n])

\* connect_block: connections.connect(block_id, channel_id, pos)?
connect_block_connect(st, pr) ==
    LET r == RepoConnect(st.connections, pr.block_id, pr.channel_id, pr.pos[1])
    IN  IF r.err = "Ok"
        THEN Out([st EXCEPT !.connections = r.conns], Goto(pr, "refetch"))
        ELSE Out([st EXCEPT !.connections = r.conns],
                 Finish(pr, "RepoDuplicate", <<>>))

\* connect_block: get_connection(..)?.ok_or_else(ConnectionNotFound)
connect_block_refetch(st, pr) ==
    LET found == RepoGetConnection(st.connections, pr.block_id, pr.channel_id)
    IN  IF found # <<>> THEN Out(st, Finish(pr, "Ok", found))
        ELSE Out(st, Finish(pr, "ConnectionNotFound",
                    ConnectionNotFound(pr.block_id, pr.channel_id)))

\* after connect_blocks' checks: the match on starting_position
connect_blocks_after_checks(pr) ==
    IF pr.position # None
    THEN [pr EXCEPT !.pc = "connect_batch", !.pos = pr.position]
    ELSE Goto(pr, "next_position")

\* connect_blocks: get_channel(channel_id)?, then enter the loop over
\* block_ids (skipped when the list is empty)
connect_blocks_get_channel(st, pr) ==
    IF ~RepoGet(st.channels, pr.channel_id)
    THEN Out(st, Finish(pr, "ChannelNotFound", <<>>))
    ELSE IF pr.block_ids # <<>>
    THEN Out(st, [pr EXCEPT !.pc = "get_block", !.i = 1])
    ELSE Out(st, connect_blocks_after_checks(pr))

\* connect_blocks, loop body: get_block(block_id)?
connect_blocks_get_block(st, pr) ==
    IF RepoGet(st.blocks, pr.block_ids[pr.i])
    THEN Out(st, Goto(pr, "get_connection"))
    ELSE Out(st, Finish(pr, "BlockNotFound", <<>>))

\* connect_blocks, loop body: get_connection(block_id, channel_id).is_some()
connect_blocks_check(st, pr) ==
    IF RepoGetConnection(st.connections, pr.block_ids[pr.i], pr.channel_id)
           # <<>>
    THEN Out(st, Finish(pr, "InvalidInput", <<>>))
    ELSE IF pr.i < Len(pr.block_ids)
    THEN Out(st, [pr EXCEPT !.pc = "get_block", !.i = pr.i + 1])
    ELSE Out(st, connect_blocks_after_checks(pr))

\* connect_blocks, starting_position None: next_position(channel_id)?
connect_blocks_next_position(st, pr, checks) ==
    LET n == RepoNextPosition(st.connections, pr.channel_id, checks)
    IN  IF n = <<>> THEN Out(st, Finish(pr, "Panic", <<>>))
        ELSE Out(st, [pr EXCEPT !.pc = "connect_batch", !.pos = n])

\* the tuples (block_id, channel_id, start_pos + i as i32), i from 0
BuildConns(bs, c, start_pos) ==
    [k \in 1..Len(bs) |-> Connection(bs[k], c, AddWrapped(start_pos, k - 1))]

BuildOverflows(bs, start_pos) ==
    \E k \in 1..Len(bs) : AddOverflows(start_pos, k - 1)

\* connect_blocks: build the tuples, then connections.connect_batch(&conns)?
connect_blocks_connect_batch(st, pr, checks) ==
    LET conns == BuildConns(pr.block_ids, pr.channel_id, pr.pos[1])
        r == RepoConnectBatch(st.connections, conns)
    IN  IF checks /\ BuildOverflows(pr.block_ids, pr.pos[1])
        THEN Out(st, Finish(pr, "Panic", <<>>))
        ELSE IF r.err # "Ok"
        THEN Out([st EXCEPT !.connections = r.conns],
                 Finish(pr, "RepoDuplicate", <<>>))
        ELSE IF pr.block_ids = <<>>
        THEN Out([st EXCEPT !.connections = r.conns], Finish(pr, "Ok", <<>>))
        ELSE Out([st EXCEPT !.connections = r.conns],
                 [pr EXCEPT !.pc = "refetch", !.i = 1])

\* the tuples a caller of the repository passes: one channel, one position
BatchTuples(bs, c, position) ==
    [k \in 1..Len(bs) |-> Connection(bs[k], c, position)]

\* ConnectionRepository::connect_batch called on the repository itself
repo_connect_batch(st, pr) ==
    LET batch == BatchTuples(pr.block_ids, pr.channel_id, pr.position[1])
        r == RepoConnectBatch(st.connections, batch)
    IN  Out([st EXCEPT !.connections = r.conns],
            Finish(pr, IF r.err = "Ok" THEN "Ok" ELSE "RepoDuplicate", <<>>))

\* connect_blocks, result loop: get_connection(block_id, channel_id)?,
\* pushed when Some
connect_blocks_refetch(st, pr) ==
    LET found == RepoGetConnection(st.connections, pr.block_ids[pr.i],
                                   pr.channel_id)
        result == pr.result.val \o found
    IN  IF pr.i < Len(pr.block_ids)
        THEN Out(st, [pr EXCEPT !.i = pr.i + 1, !.result.val = result])
        ELSE Out(st, Finish(pr, "Ok", result))

\* a disconnect_block that goes to the repository without looking for the
\* connection first (fault injected to show that C15 depends on the check)
disconnect_block_unverified(st, pr) == Out(st, Goto(pr, "disconnect"))

\* disconnect_block: get_connection(..)?.ok_or_else(ConnectionNotFound)?
disconnect_block_get(st, pr) ==
    IF RepoGetConnection(st.connections, pr.block_id, pr.channel_id) # <<>>
    THEN Out(st, Goto(pr, "disconnect"))
    ELSE Out(st, Finish(pr, "ConnectionNotFound",
                    ConnectionNotFound(pr.block_id, pr.channel_id)))

\* disconnect_block: connections.disconnect(block_id, channel_id)?
disconnect_block_disconnect(st, pr) ==
    LET r == RepoDisconnect(st.connections, pr.block_id, pr.channel_id)
    IN  IF r.err = "Ok"
        THEN Out([st EXCEPT !.connections = r.conns], Finish(pr, "Ok", <<>>))
        ELSE Out([st EXCEPT !.connections = r.conns],
                 Finish(pr, "RepoNotFound", <<>>))

\* reorder_block: get_connection(..)?.ok_or_else(ConnectionNotFound)?
reorder_block_get(st, pr) ==
    IF RepoGetConnection(st.connections, pr.block_id, pr.channel_id) # <<>>
    THEN Out(st, Goto(pr, "reorder"))
    ELSE Out(st, Finish(pr, "ConnectionNotFound",
                    ConnectionNotFound(pr.block_id, pr.channel_id)))

\* reorder_block: connections.reorder(channel_id, block_id, new_position)?
reorder_block_reorder(st, pr) ==
    LET r == RepoReorder(st.connections, pr.channel_id, pr.block_id,
                         pr.position[1])
    IN  IF r.err = "Ok"
        THEN Out([st EXCEPT !.connections = r.conns], Finish(pr, "Ok", <<>>))
        ELSE Out([st EXCEPT !.connections = r.conns],
                 Finish(pr, "RepoNotFound", <<>>))

\* get_blocks_in_channel_with_positions
get_blocks_in_channel(st, pr) ==
    Out(st, Finish(pr, "Ok",
            RepoGetBlocksInChannel(st.connections, st.blocks, pr.channel_id)))

\* get_channels_for_block
get_channels_for_block(st, pr) ==
    Out(st, Finish(pr, "Ok",
            RepoGetChannelsForBlock(st.connections, st.channels, pr.block_id)))

\* get_connection
get_connection(st, pr) ==
    LET found == RepoGetConnection(st.connections, pr.block_id, pr.channel_id)
    IN  IF found # <<>> THEN Out(st, Finish(pr, "Ok", found))
        ELSE Out(st, Finish(pr, "ConnectionNotFound",
                    ConnectionNotFound(pr.block_id, pr.channel_id)))

\* ConnectionRepository::next_position called on the repository
next_position(st, pr, checks) ==
    LET n == RepoNextPosition(st.connections, pr.channel_id, checks)
    IN  IF n = <<>> THEN Out(st, Finish(pr, "Panic", <<>>))
        ELSE Out(st, Finish(pr, "Ok", n))

\* the next step (the code up to and including the next repository call) of
\* the operation that caller record pr is in
ServiceStep(st, pr, checks) ==
    CASE pr.op = "create_channel" -> create_channel(st, pr)
      [] pr.op = "create_block" -> create_block(st, pr)
      [] pr.op = "create_blocks" -> create_blocks(st, pr)
      [] pr.op = "apply" -> field_update_apply(st, pr)
      [] pr.op = "repo_create_batch" -> repo_create_batch(st, pr)
      [] pr.op = "update_channel" /\ pr.pc = "get" -> update_channel_get(st, pr)
      [] pr.op = "update_channel" /\ pr.pc = "update" ->
            update_channel_update(st, pr)
      [] pr.op = "update_block" /\ pr.pc = "get" -> update_block_get(st, pr)
      [] pr.op = "update_block" /\ pr.pc = "update" ->
            update_block_update(st, pr)
      [] pr.op = "delete_channel" /\ pr.pc = "get" -> delete_channel_get(st, pr)
      [] pr.op = "delete_channel" /\ pr.pc = "delete" ->
            delete_channel_delete(st, pr)
      [] pr.op = "delete_block" /\ pr.pc = "get" -> delete_block_get(st, pr)
      [] pr.op = "delete_block" /\ pr.pc = "delete" -> delete_block_delete(st, pr)
      [] pr.op = "connect_block" /\ pr.pc = "get_block" ->
            connect_block_get_block(st, pr)
      [] pr.op = "connect_block" /\ pr.pc = "get_channel" ->
            connect_block_get_channel(st, pr)
      [] pr.op = "connect_block" /\ pr.pc = "get_connection" ->
            connect_block_check(st, pr)
      [] pr.op = "connect_block" /\ pr.pc = "next_position" ->
            connect_block_next_position(st, pr, checks)
      [] pr.op = "connect_block" /\ pr.pc = "connect" ->
            connect_block_connect(st, pr)
      [] pr.op = "connect_block" /\ pr.pc = "refetch" ->
            connect_block_refetch(st, pr)
      [] pr.op = "connect_blocks" /\ pr.pc = "get_channel" ->
            connect_blocks_get_channel(st, pr)
      [] pr.op = "connect_blocks" /\ pr.pc = "get_block" ->
            connect_blocks_get_block(st, pr)
      [] pr.op = "connect_blocks" /\ pr.pc = "get_connection" ->
            connect_blocks_check(st, pr)
      [] pr.op = "connect_blocks" /\ pr.pc = "next_position" ->
            connect_blocks_next_position(st, pr, checks)
      [] pr.op = "connect_blocks" /\ pr.pc = "connect_batch" ->
            connect_blocks_connect_batch(st, pr, checks)
      [] pr.op = "connect_blocks" /\ pr.pc = "refetch" ->
            connect_blocks_refetch(st, pr)
      [] pr.op = "repo_connect_batch" -> repo_connect_batch(st, pr)
      [] pr.op = "disconnect_block" /\ pr.pc = "get" -> disconnect_block_get(st, pr)
      [] pr.op = "disconnect_block" /\ pr.pc = "disconnect" ->
            disconnect_block_disconnect(st, pr)
      [] pr.op = "reorder_block" /\ pr.pc = "get" -> reorder_block_get(st, pr)
      [] pr.op = "reorder_block" /\ pr.pc = "reorder" ->
            reorder_block_reorder(st, pr)
      [] pr.op = "get_blocks_in_channel" -> get_blocks_in_channel(st, pr)
      [] pr.op = "get_channels_for_block" -> get_channels_for_block(st, pr)
      [] pr.op = "get_connection" -> get_connection(st, pr)
      [] pr.op = "next_position" -> next_position(st, pr, checks)

RECURSIVE Run(_, _, _)
\* an operation from its entry to its return, with no other caller between
Run(st, pr, checks) ==
    IF pr.pc = "done" THEN Out(st, pr)
    ELSE LET r == ServiceStep(st, pr, checks) IN Run(r.st, r.pr, checks)

\* the entries of the operations
CreateChannelCall(title) ==
    Call("create_channel", "create", UnknownId, UnknownId, <<>>, None, title)
CreateBlockCall(body) ==
    Call("create_block", "create", UnknownId, UnknownId, <<>>, None, body)
CreateChannelWithDescriptionCall(title, description) ==
    [CreateChannelCall(title) EXCEPT !.description = description]
CreateBlocksCall(contents) ==
    [Call("create_blocks", "create", UnknownId, UnknownId, <<>>, None, <<>>)
        EXCEPT !.contents = contents]
RepoCreateBatchCall(ids, body) ==
    Call("repo_create_batch", "call", UnknownId, UnknownId, ids, None, body)
ApplyCall(self, current) ==
    [Call("apply", "call", UnknownId, UnknownId, <<>>, None, <<>>)
        EXCEPT !.channel_update.description = self, !.description = current]
UpdateChannelCall(id, update) ==
    [Call("update_channel", "get", UnknownId, id, <<>>, None, <<>>)
        EXCEPT !.channel_update = update]
UpdateBlockCall(id, update) ==
    [Call("update_block", "get", id, UnknownId, <<>>, None, <<>>)
        EXCEPT !.block_update = update]
DeleteChannelCall(id) ==
    Call("delete_channel", "get", UnknownId, id, <<>>, None, <<>>)
DeleteBlockCall(id) ==
    Call("delete_block", "get", id, UnknownId, <<>>, None, <<>>)
ConnectBlockCall(b, c, position) ==
    Call("connect_block", "get_block", b, c, <<>>, position, <<>>)
ConnectBlocksCall(bs, c, starting_position) ==
    Call("connect_blocks", "get_channel", UnknownId, c, bs, starting_position,
         <<>>)
RepoConnectBatchCall(bs, c, position) ==
    Call("repo_connect_batch", "call", UnknownId, c, bs, Some(position), <<>>)
DisconnectBlockCall(b, c) ==
    Call("disconnect_block", "get", b, c, <<>>, None, <<>>)
ReorderBlockCall(c, b, new_position) ==
    Call("reorder_block", "get", b, c, <<>>, Some(new_position), <<>>)
GetBlocksInChannelCall(c) ==
    Call("get_blocks_in_channel", "read", UnknownId, c, <<>>, None, <<>>)
GetChannelsForBlockCall(b) ==
    Call("get_channels_for_block", "read", b, UnknownId, <<>>, None, <<>>)
GetConnectionCall(b, c) ==
    Call("get_connection", "read", b, c, <<>>, None, <<>>)
NextPositionCall(c) ==
    Call("next_position", "read", UnknownId, c, <<>>, None, <<>>)

\* -------------------------------------------------------------------------
\* Actions
\* -------------------------------------------------------------------------
\* ids a caller can name: those handed out so far, or a made-up one
KnownBlockIds == (1..(next_block_id - 1)) \cup {UnknownId}
KnownChannelIds == (1..(next_channel_id - 1)) \cup {UnknownId}

\* block_ids lists a caller can pass: up to MaxBatch ids, repeats allowed
BlockIdLists == UNION {[1..n -> KnownBlockIds] : n \in 0..MaxBatch}

\* a caller can start a call when it is not inside one
CanCall(p) == procs[p].pc = "idle"
InOp(p, op) == procs[p].op = op /\ procs[p].pc \notin {"idle", "done"}

\* the stores and caller p take the values of r, within the model's bounds
Apply(p, r) ==
    /\ r.st.next_block_id <= MaxBlocks + 1
    /\ r.st.next_channel_id <= MaxChannels + 1
    /\ Len(r.st.connections) <= MaxConns
    /\ \A i \in 1..Len(r.st.connections) :
           r.st.connections[i].position \in StoredPositions
    /\ blocks' = r.st.blocks
    /\ channels' = r.st.channels
    /\ block_rows' = r.st.block_rows
    /\ channel_rows' = r.st.channel_rows
    /\ connections' = r.st.connections
    /\ now' = r.st.now
    /\ next_block_id' = r.st.next_block_id
    /\ next_channel_id' = r.st.next_channel_id
    /\ procs' = [procs EXCEPT ![p] = r.pr]

\* caller p makes the call and the call runs to its return
Do(p, call) ==
    /\ CanCall(p)
    /\ \E checks \in BOOLEAN : Apply(p, Run(Store, call, checks))

\* the caller takes the result of its call
Return(p) ==
    /\ procs[p].pc = "done"
    /\ procs' = [procs EXCEPT ![p] = IdleProc]
    /\ UNCHANGED <<blocks, channels, block_rows, channel_rows, connections,
                   now, next_block_id, next_channel_id>>

CreateChannel(p) ==
    /\ CanCall(p)
    /\ \E title \in SeqStrs : Do(p, CreateChannelCall(title))
CreateBlock(p) ==
    /\ CanCall(p)
    /\ \E body \in SeqStrs : Do(p, CreateBlockCall(body))
DeleteChannel(p) == \E id \in KnownChannelIds : Do(p, DeleteChannelCall(id))
DeleteBlock(p) == \E id \in KnownBlockIds : Do(p, DeleteBlockCall(id))
ConnectBlock(p) ==
    \E b \in KnownBlockIds, c \in KnownChannelIds, position \in OptPositions :
        Do(p, ConnectBlockCall(b, c, position))
ConnectBlocks(p) ==
    \E bs \in BlockIdLists, c \in KnownChannelIds, start \in OptPositions :
        Do(p, ConnectBlocksCall(bs, c, start))
DisconnectBlock(p) ==
    \E b \in KnownBlockIds, c \in KnownChannelIds :
        Do(p, DisconnectBlockCall(b, c))
ReorderBlock(p) ==
    \E b \in KnownBlockIds, c \in KnownChannelIds, n \in Positions :
        Do(p, ReorderBlockCall(c, b, n))
GetBlocksInChannel(p) ==
    \E c \in KnownChannelIds : Do(p, GetBlocksInChannelCall(c))
GetChannelsForBlock(p) ==
    \E b \in KnownBlockIds : Do(p, GetChannelsForBlockCall(b))
GetConnection(p) ==
    \E b \in KnownBlockIds, c \in KnownChannelIds :
        Do(p, GetConnectionCall(b, c))
NextPosition(p) == \E c \in KnownChannelIds : Do(p, NextPositionCall(c))

\* the updates and batches of the sequential runs: payloads that leave the
\* stored values as they are, or that fail validation
SeqBlockUpdates ==
    {[NoBlockUpdate EXCEPT !.content = c] : c \in {None, Some(<<" ">>)}}
SeqChannelUpdates ==
    {[NoChannelUpdate EXCEPT !.title = t] : t \in {None, Some(<<" ">>)}}
SeqContentLists == {<<>>, <<<<"a">>>>, <<<<"a">>, <<" ">>>>}

SeqUpdateBlock(p) ==
    /\ CanCall(p)
    /\ \E id \in KnownBlockIds, update \in SeqBlockUpdates :
           Do(p, UpdateBlockCall(id, update))
SeqUpdateChannel(p) ==
    /\ CanCall(p)
    /\ \E id \in KnownChannelIds, update \in SeqChannelUpdates :
           Do(p, UpdateChannelCall(id, update))
SeqCreateBlocks(p) ==
    /\ CanCall(p)
    /\ \E contents \in SeqContentLists : Do(p, CreateBlocksCall(contents))

\* one caller: every call runs to its end before the next starts
SeqNext ==
    \E p \in SeqProcs :
        \/ CreateChannel(p)
        \/ CreateBlock(p)
        \/ SeqCreateBlocks(p)
        \/ SeqUpdateChannel(p)
        \/ SeqUpdateBlock(p)
        \/ DeleteChannel(p)
        \/ DeleteBlock(p)
        \/ ConnectBlock(p)
        \/ ConnectBlocks(p)
        \/ DisconnectBlock(p)
        \/ ReorderBlock(p)
        \/ GetBlocksInChannel(p)
        \/ GetChannelsForBlock(p)
        \/ GetConnection(p)
        \/ NextPosition(p)
        \/ Return(p)

SeqSpec == Init /\ [][SeqNext]_vars

\* one caller reorders, disconnects and connects in a channel that holds two
\* blocks, appended one after the other
ReorderInit ==
    /\ blocks = {1, 2}
    /\ channels = {1}
    /\ block_rows = MapPut(MapPut(EmptyMap, 1, BlockRow(1, <<"a">>, 0)),
                           2, BlockRow(2, <<"a">>, 0))
    /\ channel_rows = MapPut(EmptyMap, 1, ChannelRow(1, <<"a">>, None, 0))
    /\ connections = <<Connection(1, 1, 0), Connection(2, 1, 1)>>
    /\ now = 0
    /\ next_block_id = 3
    /\ next_channel_id = 2
    /\ procs = [p \in Procs |-> IdleProc]

ReorderNext ==
    \E p \in SeqProcs :
        \/ ReorderBlock(p)
        \/ DisconnectBlock(p)
        \/ ConnectBlock(p)
        \/ Return(p)

ReorderSpec == ReorderInit /\ [][ReorderNext]_vars

\* -------------------------------------------------------------------------
\* Concurrent callers: an operation is entered with its first repository
\* call and continues one repository call at a time
\* -------------------------------------------------------------------------
Start(p, call) ==
    /\ CanCall(p)
    /\ \E checks \in BOOLEAN : Apply(p, ServiceStep(Store, call, checks))

Continue(p) ==
    \E checks \in BOOLEAN : Apply(p, ServiceStep(Store, procs[p], checks))

ConnectBlockStart(p) ==
    \E b \in KnownBlockIds, c \in KnownChannelIds, position \in OptPositions :
        Start(p, ConnectBlockCall(b, c, position))
ConnectBlockStep(p) ==
    /\ InOp(p, "connect_block")
    /\ Continue(p)
ConnectBlocksStart(p) ==
    \E bs \in BlockIdLists, c \in KnownChannelIds, start \in OptPositions :
        Start(p, ConnectBlocksCall(bs, c, start))
ConnectBlocksStep(p) ==
    /\ InOp(p, "connect_blocks")
    /\ Continue(p)
RepoConnectBatchStart(p) ==
    /\ CanCall(p)
    /\ \E bs \in BlockIdLists, c \in channels, position \in 0..MaxPos :
           Start(p, RepoConnectBatchCall(bs, c, position))
DisconnectBlockStart(p) ==
    \E b \in KnownBlockIds, c \in KnownChannelIds :
        Start(p, DisconnectBlockCall(b, c))
DisconnectBlockStep(p) ==
    /\ InOp(p, "disconnect_block")
    /\ Continue(p)
ReorderBlockStart(p) ==
    \E b \in KnownBlockIds, c \in KnownChannelIds, n \in Positions :
        Start(p, ReorderBlockCall(c, b, n))
ReorderBlockStep(p) ==
    /\ InOp(p, "reorder_block")
    /\ Continue(p)
DeleteBlockStart(p) == \E id \in KnownBlockIds : Start(p, DeleteBlockCall(id))
DeleteBlockStep(p) ==
    /\ InOp(p, "delete_block")
    /\ Continue(p)
DeleteChannelStart(p) ==
    \E id \in KnownChannelIds : Start(p, DeleteChannelCall(id))
DeleteChannelStep(p) ==
    /\ InOp(p, "delete_channel")
    /\ Continue(p)

\* the stores after create_block and create_channel have each succeeded once
RaceInit ==
    /\ blocks = {1}
    /\ channels = {1}
    /\ block_rows = MapPut(EmptyMap, 1, BlockRow(1, <<"a">>, 0))
    /\ channel_rows = MapPut(EmptyMap, 1, ChannelRow(1, <<"a">>, None, 0))
    /\ connections = <<>>
    /\ now = 0
    /\ next_block_id = 2
    /\ next_channel_id = 2
    /\ procs = [p \in Procs |-> IdleProc]

RaceNext ==
    \E p \in Procs :
        \/ ConnectBlockStart(p)
        \/ ConnectBlockStep(p)
        \/ DisconnectBlockStart(p)
        \/ DisconnectBlockStep(p)
        \/ ReorderBlockStart(p)
        \/ ReorderBlockStep(p)
        \/ DeleteBlockStart(p)
        \/ DeleteBlockStep(p)
        \/ DeleteChannelStart(p)
        \/ DeleteChannelStep(p)
        \/ Return(p)

RaceSpec == RaceInit /\ [][RaceNext]_vars

\* one caller issues connect_blocks calls while the other connects,
\* disconnects and deletes single blocks
BatchCaller == "p1"
SingleCaller == "p2"

BatchNext ==
    \/ ConnectBlocksStart(BatchCaller)
    \/ ConnectBlocksStep(BatchCaller)
    \/ ConnectBlockStart(SingleCaller)
    \/ ConnectBlockStep(SingleCaller)
    \/ DisconnectBlockStart(SingleCaller)
    \/ DisconnectBlockStep(SingleCaller)
    \/ DeleteBlockStart(SingleCaller)
    \/ DeleteBlockStep(SingleCaller)
    \/ \E p \in Procs : Return(p)

BatchSpec == RaceInit /\ [][BatchNext]_vars

\* one caller calls the repository's connect_batch while the other connects
\* and disconnects single blocks
RepoBatchNext ==
    \/ RepoConnectBatchStart(BatchCaller)
    \/ ConnectBlockStart(SingleCaller)
    \/ ConnectBlockStep(SingleCaller)
    \/ DisconnectBlockStart(SingleCaller)
    \/ DisconnectBlockStep(SingleCaller)
    \/ \E p \in Procs : Return(p)

RepoBatchSpec == RaceInit /\ [][RepoBatchNext]_vars

\* a block is updated again and again by one caller
OptFieldUpdates == {None} \cup {Some(u) : u \in {Keep, Clear, Set(<<"a">>)}}
OptContents == {None, Some(<<"b">>), Some(<<" ">>)}
BlockUpdates ==
    [content : OptContents, source_url : OptFieldUpdates,
     source_title : OptFieldUpdates, creator : OptFieldUpdates,
     original_date : OptFieldUpdates, notes : OptFieldUpdates]
OptMetaStrs == {None} \cup {Some(v) : v \in MetaStrs}

UpdateBlock(p) ==
    /\ CanCall(p)
    /\ \E id \in KnownBlockIds :
           \E update \in IF id \in blocks THEN BlockUpdates
                          ELSE {NoBlockUpdate} :
               Do(p, UpdateBlockCall(id, update))

ApplyFieldUpdate(p) ==
    /\ CanCall(p)
    /\ \E self \in FieldUpdates, current \in OptMetaStrs :
           Do(p, ApplyCall(self, current))

\* the block of RaceInit, one tick of the clock after its creation
BlockUpdateInit ==
    /\ blocks = {1}
    /\ channels = {1}
    /\ block_rows = MapPut(EmptyMap, 1, BlockRow(1, <<"a">>, 0))
    /\ channel_rows = MapPut(EmptyMap, 1, ChannelRow(1, <<"a">>, None, 0))
    /\ connections = <<>>
    /\ now = 1
    /\ next_block_id = 2
    /\ next_channel_id = 2
    /\ procs = [p \in Procs |-> IdleProc]

BlockUpdateNext ==
    \E p \in SeqProcs :
        \/ UpdateBlock(p)
        \/ ApplyFieldUpdate(p)
        \/ Return(p)

BlockUpdateSpec == BlockUpdateInit /\ [][BlockUpdateNext]_vars

\* Utc::now() moves on
Tick ==
    /\ now < MaxClock
    /\ now' = now + 1
    /\ UNCHANGED <<blocks, channels, block_rows, channel_rows, connections,
                   next_block_id, next_channel_id, procs>>

\* blocks are created in batches and deleted by one caller
ContentLists == UNION {[1..n -> Strs] : n \in 0..MaxBatch}

\* the ids of the blocks a caller of the repository passes: ids handed out
\* before, stored or deleted since
HandedOutIdLists ==
    UNION {[1..n -> 1..(next_block_id - 1)] : n \in 0..MaxBatch}

CreateBlocks(p) ==
    /\ CanCall(p)
    /\ \E contents \in ContentLists : Do(p, CreateBlocksCall(contents))

CreateBatch(p) ==
    /\ CanCall(p)
    /\ \E ids \in HandedOutIdLists : Do(p, RepoCreateBatchCall(ids, <<"a">>))

BlockBatchNext ==
    \/ \E p \in SeqProcs :
           \/ CreateBlocks(p)
           \/ CreateBatch(p)
           \/ DeleteBlock(p)
           \/ Return(p)
    \/ Tick

BlockBatchSpec == Init /\ [][BlockBatchNext]_vars

\* channels are created and updated by one caller while time passes
ChannelUpdates ==
    [title : {None} \cup {Some(t) : t \in Strs},
     description : {Keep, Clear, Set(<<"b">>)}]

CreateChannelWithDescription(p) ==
    /\ CanCall(p)
    /\ \E title \in Strs, description \in {None, Some(<<"b">>)} :
           Do(p, CreateChannelWithDescriptionCall(title, description))

UpdateChannel(p) ==
    /\ CanCall(p)
    /\ \E id \in KnownChannelIds, update \in ChannelUpdates :
           Do(p, UpdateChannelCall(id, update))

ChannelNext ==
    \/ \E p \in SeqProcs :
           \/ CreateChannelWithDescription(p)
           \/ UpdateChannel(p)
           \/ Return(p)
    \/ Tick

ChannelSpec == Init /\ [][ChannelNext]_vars

\* -------------------------------------------------------------------------
\* Concurrent appends: two callers connect the two stored blocks to the one
\* stored channel, each without naming a position
\* -------------------------------------------------------------------------
AppendInit ==
    /\ blocks = {1, 2}
    /\ channels = {1}
    /\ block_rows = MapPut(MapPut(EmptyMap, 1, BlockRow(1, <<"a">>, 0)),
                           2, BlockRow(2, <<"a">>, 0))
    /\ channel_rows = MapPut(EmptyMap, 1, ChannelRow(1, <<"a">>, None, 0))
    /\ connections = <<>>
    /\ now = 0
    /\ next_block_id = 3
    /\ next_channel_id = 2
    /\ procs = [p \in Procs |-> IdleProc]

ConnectBlockAppendStart(p) ==
    \E b \in blocks, c \in channels : Start(p, ConnectBlockCall(b, c, None))

AppendNext ==
    \E p \in Procs :
        \/ ConnectBlockAppendStart(p)
        \/ ConnectBlockStep(p)
        \/ DisconnectBlockStart(p)
        \/ DisconnectBlockStep(p)
        \/ Return(p)

AppendSpec == AppendInit /\ [][AppendNext]_vars

\* -------------------------------------------------------------------------
\* Concurrent updates: two callers update the one stored block and the one
\* stored channel, each call setting a single field
\* -------------------------------------------------------------------------
SetSourceUrl == [NoBlockUpdate EXCEPT !.source_url = Some(Set(<<"a">>))]
SetNotes == [NoBlockUpdate EXCEPT !.notes = Some(Set(<<"a">>))]
SetTitle == [NoChannelUpdate EXCEPT !.title = Some(<<"b">>)]
SetDescription == [NoChannelUpdate EXCEPT !.description = Set(<<"b">>)]

UpdateBlockStart(p) ==
    \E id \in blocks, update \in {SetSourceUrl, SetNotes} :
        Start(p, UpdateBlockCall(id, update))
UpdateBlockStep(p) ==
    /\ InOp(p, "update_block")
    /\ Continue(p)
UpdateChannelStart(p) ==
    \E id \in channels, update \in {SetTitle, SetDescription} :
        Start(p, UpdateChannelCall(id, update))
UpdateChannelStep(p) ==
    /\ InOp(p, "update_channel")
    /\ Continue(p)

UpdateRaceNext ==
    \E p \in Procs :
        \/ UpdateBlockStart(p)
        \/ UpdateBlockStep(p)
        \/ UpdateChannelStart(p)
        \/ UpdateChannelStep(p)
        \/ Return(p)

UpdateRaceSpec == BlockUpdateInit /\ [][UpdateRaceNext]_vars

\* -------------------------------------------------------------------------
\* One caller makes the calls that validate their input
\* -------------------------------------------------------------------------
ConnectBlockAppend(p) ==
    \E b \in KnownBlockIds, c \in KnownChannelIds :
        Do(p, ConnectBlockCall(b, c, None))
ConnectBlocksAppend(p) ==
    \E bs \in BlockIdLists, c \in KnownChannelIds :
        Do(p, ConnectBlocksCall(bs, c, None))

ValidationNext ==
    \E p \in SeqProcs :
        \/ CreateChannel(p)
        \/ CreateBlock(p)
        \/ SeqCreateBlocks(p)
        \/ SeqUpdateChannel(p)
        \/ SeqUpdateBlock(p)
        \/ ConnectBlockAppend(p)
        \/ ConnectBlocksAppend(p)
        \/ Return(p)

ValidationSpec == Init /\ [][ValidationNext]_vars

\* -------------------------------------------------------------------------
\* Tauri IPC errors: impl From<DomainError> for TauriError
\* -------------------------------------------------------------------------
ErrorMessages == {<<"Title cannot be empty">>, <<"lock poisoned">>}

\* RepoError and DomainError values: the variant and what it carries
RepoErrors ==
    {[kind |-> "NotFound", args |-> <<>>],
     [kind |-> "Duplicate", args |-> <<>>]}
    \cup {[kind |-> k, args |-> <<msg>>] :
             k \in {"Database", "Serialization"}, msg \in ErrorMessages}

DomainErrors ==
    {[kind |-> k, args |-> <<id>>] :
        k \in {"ChannelNotFound", "BlockNotFound"}, id \in 0..MaxBlocks}
    \cup {[kind |-> "ConnectionNotFound", args |-> <<b, c>>] :
             b \in 0..MaxBlocks, c \in 0..MaxChannels}
    \cup {[kind |-> "InvalidInput", args |-> <<msg>>] : msg \in ErrorMessages}
    \cup {[kind |-> "Repository", args |-> <<e>>] : e \in RepoErrors}

\* TauriError::new and TauriError::with_entity
TauriError_new(code, message) ==
    [code |-> code, message |-> message, entity_id |-> None]
TauriError_with_entity(code, message, entity_id) ==
    [code |-> code, message |-> message, entity_id |-> Some(entity_id)]

\* a conversion of RepoError that reports every variant as a database error
TauriError_from_RepoError_one_code(err) ==
    TauriError_new("DATABASE_ERROR",
                   IF err.args = <<>> THEN <<"Record failed">> ELSE err.args[1])

\* impl From<RepoError> for TauriError; the codes as serde writes them
TauriError_from_RepoError(err) ==
    CASE err.kind = "NotFound" ->
            TauriError_new("DATABASE_ERROR", <<"Record not found">>)
      [] err.kind = "Duplicate" ->
            TauriError_new("DUPLICATE_ERROR", <<"Record already exists">>)
      [] err.kind = "Database" ->
            TauriError_new("DATABASE_ERROR", err.args[1])
      [] err.kind = "Serialization" ->
            TauriError_new("INTERNAL_ERROR",
                           <<"Serialization error: ">> \o err.args[1])

\* impl From<DomainError> for TauriError
TauriError_from_DomainError(err) ==
    CASE err.kind = "ChannelNotFound" ->
            TauriError_with_entity("CHANNEL_NOT_FOUND",
                                   <<"Channel not found: ", err.args[1]>>,
                                   err.args[1])
      [] err.kind = "BlockNotFound" ->
            TauriError_with_entity("BLOCK_NOT_FOUND",
                                   <<"Block not found: ", err.args[1]>>,
                                   err.args[1])
      [] err.kind = "ConnectionNotFound" ->
            TauriError_new("CONNECTION_NOT_FOUND",
                           <<"Connection not found: block ", err.args[1],
                             " in channel ", err.args[2]>>)
      [] err.kind = "InvalidInput" ->
            TauriError_new("VALIDATION_ERROR", err.args[1])
      [] err.kind = "Repository" -> TauriError_from_RepoError(err.args[1])

\* a command handler turns the DomainError of its service call into the
\* TauriError it answers with
IntoTauriError(p) ==
    /\ CanCall(p)
    /\ \E err \in DomainErrors :
           Apply(p, Out(Store,
                        Finish([Call("into", "call", UnknownId, UnknownId,
                                     <<>>, None, <<>>)
                                   EXCEPT !.row = Some(err)],
                               "Err", <<TauriError_from_DomainError(err)>>)))

ErrorNext ==
    \E p \in Procs :
        \/ IntoTauriError(p)
        \/ Return(p)

ErrorSpec == Init /\ [][ErrorNext]_vars

\* -------------------------------------------------------------------------
\* list_channels: InMemoryChannelRepository::list and Page
\* -------------------------------------------------------------------------
\* the orders in which HashMap::values can yield the stored rows
IterationOrders(rows) ==
    {s \in [1..Cardinality(DOMAIN rows) -> DOMAIN rows] :
        \A i, j \in 1..Cardinality(DOMAIN rows) : i # j => s[i] # s[j]}

RECURSIVE InsertByCreatedAtDesc(_, _)
InsertByCreatedAtDesc(sorted, x) ==
    IF sorted = <<>> THEN <<x>>
    ELSE IF Head(sorted).created_at < x.created_at THEN <<x>> \o sorted
    ELSE <<Head(sorted)>> \o InsertByCreatedAtDesc(Tail(sorted), x)

RECURSIVE SortByCreatedAtDesc(_)
\* items.sort_by(|a, b| b.created_at.cmp(&a.created_at)), a stable sort
SortByCreatedAtDesc(s) ==
    IF s = <<>> THEN <<>>
    ELSE InsertByCreatedAtDesc(SortByCreatedAtDesc(SubSeq(s, 1, Len(s) - 1)),
                               s[Len(s)])

\* Iterator::skip(n) and Iterator::take(n)
Skip(s, n) == SubSeq(s, n + 1, Len(s))
Take(s, n) == SubSeq(s, 1, IF n < Len(s) THEN n ELSE Len(s))

\* Page::new and Page::has_next
Page_new(items, total, offset, limit) ==
    [items |-> items, total |-> total, offset |-> offset, limit |-> limit]
has_next(self) == self.offset + Len(self.items) < self.total

\* a list that pages through the rows in the order the map yields them
RepoListUnsorted(rows, order, limit, offset) ==
    Page_new(Take(Skip([i \in 1..Len(order) |-> rows[order[i]]], offset),
                  limit),
             Cardinality(DOMAIN rows), offset, limit)

\* InMemoryChannelRepository::list; order is the map's iteration order
RepoList(rows, order, limit, offset) ==
    LET total == Cardinality(DOMAIN rows)
        items == SortByCreatedAtDesc([i \in 1..Len(order) |-> rows[order[i]]])
    IN  Page_new(Take(Skip(items, offset), limit), total, offset, limit)

\* GardenService::list_channels(limit, offset)
ListChannels(p) ==
    /\ CanCall(p)
    /\ \E limit \in 0..MaxChannels, offset \in 0..(MaxChannels + 1),
          order \in IterationOrders(channel_rows) :
           Apply(p, Out(Store,
                        Finish([Call("list_channels", "call", UnknownId,
                                     UnknownId, <<>>, None, <<>>)
                                   EXCEPT !.i = limit, !.pos = Some(offset)],
                               "Ok",
                               <<RepoList(channel_rows, order, limit,
                                          offset)>>)))

ListNext ==
    \/ \E p \in SeqProcs :
           \/ CreateChannel(p)
           \/ DeleteChannel(p)
           \/ ListChannels(p)
           \/ Return(p)
    \/ Tick

ListSpec == Init /\ [][ListNext]_vars

\* -------------------------------------------------------------------------
\* validation.rs: URLs and block content. A string is a sequence of pieces:
\* " " is a space, ":" and "/" are themselves, "x" is a letter, and "http",
\* "https" and "ftp" are those words
\* -------------------------------------------------------------------------
MaxUrlLen == 4
UrlPieces == {" ", "http", "https", "ftp", "x", ":", "/"}
UrlStrs == UNION {[1..n -> UrlPieces] : n \in 0..MaxUrlLen}

\* the longest prefix of s that holds no piece of stop
RECURSIVE Until(_, _)
Until(s, stop) ==
    IF s = <<>> \/ Head(s) \in stop THEN <<>>
    ELSE <<Head(s)>> \o Until(Tail(s), stop)

RECURSIVE SkipSlashes(_)
SkipSlashes(s) ==
    IF s # <<>> /\ Head(s) = "/" THEN SkipSlashes(Tail(s)) ELSE s

ParseError == [ok |-> FALSE, scheme |-> <<>>, host |-> None]
Parsed(scheme, host) == [ok |-> TRUE, scheme |-> scheme, host |-> host]

\* the authority of a URL: host, then ":" and a port of digits; a special
\* scheme needs a host, a host holds no space, and no piece is a digit
ParseAuthority(scheme, s, special) ==
    LET authority == Until(s, {"/"})
        host == Until(authority, {":"})
        port == SubSeq(authority, Len(host) + 2, Len(authority))
    IN  IF \E i \in 1..Len(host) : host[i] = " " THEN ParseError
        ELSE IF port # <<>> THEN ParseError
        ELSE IF host = <<>>
        THEN IF special THEN ParseError ELSE Parsed(scheme, None)
        ELSE Parsed(scheme, Some(host))

\* Url::parse: leading and trailing spaces are dropped; the scheme is the
\* letters before the first ":"; http, https and ftp are special schemes
\* (any number of slashes, then an authority); another scheme has an
\* authority only after "//"
Url_parse(input) ==
    LET s == Trim(input)
        scheme == Until(s, {" ", ":", "/"})
        rest == SubSeq(s, Len(scheme) + 2, Len(s))
    IN  IF scheme = <<>> \/ Len(scheme) = Len(s) \/ s[Len(scheme) + 1] # ":"
        THEN ParseError
        ELSE IF scheme \in {<<"http">>, <<"https">>, <<"ftp">>}
        THEN ParseAuthority(scheme, SkipSlashes(rest), TRUE)
        ELSE IF Len(rest) >= 2 /\ rest[1] = "/" /\ rest[2] = "/"
        THEN ParseAuthority(scheme, SubSeq(rest, 3, Len(rest)), FALSE)
        ELSE Parsed(scheme, None)

\* a validate_url that allows every scheme
validate_url_any_scheme(url_str) ==
    IF Trim(url_str) = <<>> THEN "InvalidInput"
    ELSE LET parsed == Url_parse(url_str)
         IN  IF ~parsed.ok THEN "InvalidInput"
             ELSE IF parsed.host = None THEN "InvalidInput"
             ELSE "Ok"

validate_url(url_str) ==
    IF Trim(url_str) = <<>> THEN "InvalidInput"
    ELSE LET parsed == Url_parse(url_str)
         IN  IF ~parsed.ok THEN "InvalidInput"
             ELSE IF parsed.scheme \notin {<<"http">>, <<"https">>}
             THEN "InvalidInput"
             ELSE IF parsed.host = None THEN "InvalidInput"
             ELSE "Ok"

ValidateUrl(p) ==
    /\ CanCall(p)
    /\ \E url_str \in UrlStrs :
           Apply(p, Out(Store,
                        Finish(Call("validate_url", "call", UnknownId,
                                    UnknownId, <<>>, None, url_str),
                               validate_url(url_str), <<>>)))

\* validate_optional_text: the empty string passes, whitespace only fails
validate_optional_text(text) ==
    IF text = <<>> THEN "Ok"
    ELSE IF Trim(text) = <<>> THEN "InvalidInput"
    ELSE "Ok"

\* str::contains("..") on a path whose "." pieces are single dots
ContainsDotDot(path) ==
    \E i \in 1..(Len(path) - 1) : path[i] = "." /\ path[i + 1] = "."

\* a validate_file_path that takes a leading backslash for a relative path
validate_file_path_slash_only(path) ==
    IF Trim(path) = <<>> THEN "InvalidInput"
    ELSE IF ContainsDotDot(path) THEN "InvalidInput"
    ELSE IF path[1] = "/" THEN "InvalidInput"
    ELSE "Ok"

validate_file_path(path) ==
    IF Trim(path) = <<>> THEN "InvalidInput"
    ELSE IF ContainsDotDot(path) THEN "InvalidInput"
    ELSE IF path[1] = "/" \/ path[1] = "\\" THEN "InvalidInput"
    ELSE "Ok"

\* validate_mime_type; a category word is one piece
validate_mime_type(mime_type, expected_category) ==
    IF Trim(mime_type) = <<>> THEN "InvalidInput"
    ELSE IF ~(/\ Len(mime_type) >= 2
              /\ mime_type[1] = expected_category
              /\ mime_type[2] = "/")
    THEN "InvalidInput"
    ELSE "Ok"

\* the first check of checks (in order) that fails, as the ? operator does
RECURSIVE FirstFailure(_)
FirstFailure(checks) ==
    IF checks = <<>> THEN "Ok"
    ELSE IF Head(checks) # "Ok" THEN Head(checks)
    ELSE FirstFailure(Tail(checks))

\* if let Some(t) = field { validate_optional_text(.., t)? }
IfSomeText(field) ==
    IF field = None THEN "Ok" ELSE validate_optional_text(field[1])
IfSomeUrl(field) == IF field = None THEN "Ok" ELSE validate_url(field[1])

\* BlockContent: the variant and its fields; a field the variant does not
\* have is None
Content(variant) ==
    [variant |-> variant, body |-> None, url |-> None, title |-> None,
     description |-> None, alt_text |-> None, artist |-> None,
     file_path |-> None, mime_type |-> None, original_url |-> None]

validate_block_content(content) ==
    CASE content.variant = "Text" -> validate_text(content.body[1])
      [] content.variant = "Link" ->
            FirstFailure(<<validate_url(content.url[1]),
                           IfSomeText(content.title),
                           IfSomeText(content.description),
                           IfSomeText(content.alt_text)>>)
      [] content.variant = "Image" ->
            FirstFailure(<<validate_file_path(content.file_path[1]),
                           validate_mime_type(content.mime_type[1], "image"),
                           IfSomeText(content.alt_text),
                           IfSomeUrl(content.original_url)>>)
      [] content.variant = "Video" ->
            FirstFailure(<<validate_file_path(content.file_path[1]),
                           validate_mime_type(content.mime_type[1], "video"),
                           IfSomeText(content.alt_text),
                           IfSomeUrl(content.original_url)>>)
      [] content.variant = "Audio" ->
            FirstFailure(<<validate_file_path(content.file_path[1]),
                           validate_mime_type(content.mime_type[1], "audio"),
                           IfSomeText(content.title),
                           IfSomeText(content.artist),
                           IfSomeUrl(content.original_url)>>)

\* the inputs of the content checks
FilePaths ==
    {<<>>, <<" ">>, <<"a">>, <<"a", "/", "a">>, <<".", "a">>,
     <<"a", ".", ".">>, <<".", ".", "/", "a">>, <<"/", "a">>, <<"\\", "a">>,
     <<" ", "/">>}
MimeTypes ==
    {<<>>, <<" ">>, <<"png">>, <<"image">>, <<"image", "/">>,
     <<"image", "/", "png">>, <<"video", "/", "png">>,
     <<"audio", "/", "png">>, <<" ", "image", "/", "png">>}
OptTexts == {None, Some(<<>>), Some(<<" ">>), Some(<<"a">>)}
OriginalUrls ==
    {None, Some(<<" ">>), Some(<<"x">>), Some(<<"https", ":", "/", "/", "x">>),
     Some(<<"ftp", ":", "/", "/", "x">>)}

Contents ==
    {[Content("Text") EXCEPT !.body = Some(body)] : body \in SeqStrs}
    \cup {[Content("Link") EXCEPT !.url = url, !.title = t] :
             url \in OriginalUrls \ {None}, t \in OptTexts}
    \cup {[Content(v) EXCEPT !.file_path = Some(f), !.mime_type = Some(m),
                             !.alt_text = a, !.original_url = u] :
             v \in {"Image", "Video"}, f \in FilePaths, m \in MimeTypes,
             a \in OptTexts, u \in OriginalUrls}
    \cup {[Content("Audio") EXCEPT !.file_path = Some(f),
                                   !.mime_type = Some(m), !.title = t,
                                   !.artist = a, !.original_url = u] :
             f \in FilePaths, m \in MimeTypes, t \in OptTexts,
             a \in OptTexts, u \in OriginalUrls}

ValidateBlockContent(p) ==
    /\ CanCall(p)
    /\ \E content \in Contents :
           Apply(p, Out(Store,
                        Finish([Call("validate_block_content", "call",
                                     UnknownId, UnknownId, <<>>, None, <<>>)
                                   EXCEPT !.row = Some(content)],
                               validate_block_content(content), <<>>)))

ContentNext ==
    \E p \in SeqProcs :
        \/ ValidateUrl(p)
        \/ ValidateBlockContent(p)
        \/ Return(p)

ContentSpec == Init /\ [][ContentNext]_vars

\* -------------------------------------------------------------------------
\* MediaService::import_from_url (services/media.rs)
\* -------------------------------------------------------------------------
MAX_DOWNLOAD_SIZE == 100 * 1024 * 1024

\* what the server answers: the status, the Content-Length header when it
\* sends one, the length of the body and whether the content type is one of
\* the media types; a body announced by Content-Length has that length
BodyLengths == {0, MAX_DOWNLOAD_SIZE, MAX_DOWNLOAD_SIZE + 1}
Responses ==
    {r \in [success : BOOLEAN, content_length : {None} \cup
                                   {Some(n) : n \in BodyLengths},
            body : BodyLengths, supported_type : BOOLEAN] :
        r.content_length # None => r.content_length[1] = r.body}

ImportUrls ==
    {<<"http", ":", "/", "/", "x">>, <<"ftp", ":", "/", "/", "x">>, <<"x">>}

\* import_from_url: the result and, in val, the length of the file written
import_from_url(pr, url, response) ==
    LET parsed_url == Url_parse(url)
    IN  IF ~parsed_url.ok THEN Finish(pr, "InvalidUrl", <<>>)
        ELSE IF parsed_url.scheme \notin {<<"http">>, <<"https">>}
        THEN Finish(pr, "InvalidUrl", <<>>)
        ELSE IF ~response.success THEN Finish(pr, "Download", <<>>)
        ELSE IF /\ response.content_length # None
                /\ response.content_length[1] > MAX_DOWNLOAD_SIZE
        THEN Finish(pr, "FileTooLarge", <<>>)
        ELSE IF ~response.supported_type
        THEN Finish(pr, "UnsupportedType", <<>>)
        ELSE Finish(pr, "Ok", <<response.body>>)

ImportFromUrl(p) ==
    /\ CanCall(p)
    /\ \E url \in ImportUrls, response \in Responses :
           Apply(p, Out(Store,
                        import_from_url(
                            [Call("import_from_url", "call", UnknownId,
                                  UnknownId, <<>>, None, url)
                                EXCEPT !.row = Some(response)],
                            url, response)))

MediaNext ==
    \E p \in Procs :
        \/ ImportFromUrl(p)
        \/ Return(p)

MediaSpec == Init /\ [][MediaNext]_vars

\* -------------------------------------------------------------------------
\* The SQLite repositories (garden-db/src/sqlite); the connections table is
\* the sequence of its rows
\* -------------------------------------------------------------------------
\* SqliteBlockRepository::delete: DELETE FROM blocks WHERE id = $1, NotFound
\* when no row was affected; with foreign keys enforced the delete cascades
\* to the block's connections
SqliteDeleteBlock(blks, conns, id) ==
    IF id \in blks
    THEN [err |-> "Ok", blocks |-> blks \ {id},
          conns |-> SelectSeq(conns, LAMBDA x : x.block_id # id)]
    ELSE [err |-> "NotFound", blocks |-> blks, conns |-> conns]

\* SqliteChannelRepository::delete, cascading to the channel's connections
SqliteDeleteChannel(chans, conns, id) ==
    IF id \in chans
    THEN [err |-> "Ok", channels |-> chans \ {id},
          conns |-> SelectSeq(conns, LAMBDA x : x.channel_id # id)]
    ELSE [err |-> "NotFound", channels |-> chans, conns |-> conns]

\* SqliteConnectionRepository::get_connection: fetch_optional of the rows
\* WHERE block_id = $1 AND channel_id = $2
SqliteGetConnection(conns, b, c) ==
    IF \E i \in 1..Len(conns) : SamePair(conns[i], b, c)
    THEN <<CHOOSE x \in {conns[i] : i \in 1..Len(conns)} : SamePair(x, b, c)>>
    ELSE <<>>

\* SqliteConnectionRepository::next_position: SELECT MAX(position), then
\* m + 1, or 0 when the channel has no rows
SqliteNextPosition(conns, c, checks) ==
    LET m == MaxPosition(SelectSeqBy(conns, "channel", c), None)
    IN  IF m = None THEN <<0>>
        ELSE IF AddOverflows(m[1], 1) /\ checks THEN <<>>
        ELSE <<AddWrapped(m[1], 1)>>

\* -------------------------------------------------------------------------
\* NewBlock: blocks created with archival metadata
\* -------------------------------------------------------------------------
\* the metadata fields of a NewBlock: each one absent or given
NewBlockMetadata == [MetaFields -> {None, Some(<<"a">>)}]
NewBlockMetadataLists ==
    UNION {[1..n -> NewBlockMetadata] : n \in 0..MaxBatch}

\* the metadata a stored block carries
StoredMetadata(row) ==
    [f \in MetaFields |->
        CASE f = "source_url" -> row.source_url
          [] f = "source_title" -> row.source_title
          [] f = "creator" -> row.creator
          [] f = "original_date" -> row.original_date
          [] f = "notes" -> row.notes]

\* create_block(new_block) and create_blocks(new_blocks) called with
\* NewBlocks that carry metadata next to their Text content
CreateNewBlock(p) ==
    /\ CanCall(p)
    /\ \E body \in SeqStrs, metadata \in NewBlockMetadata :
           Do(p, [CreateBlockCall(body) EXCEPT !.row = Some(metadata)])
CreateNewBlocks(p) ==
    /\ CanCall(p)
    /\ \E metadata \in NewBlockMetadataLists :
           Do(p, [CreateBlocksCall([k \in 1..Len(metadata) |-> <<"a">>])
                     EXCEPT !.row = Some(metadata)])

NewBlockNext ==
    \E p \in SeqProcs :
        \/ CreateNewBlock(p)
        \/ CreateNewBlocks(p)
        \/ Return(p)

NewBlockSpec == Init /\ [][NewBlockNext]_vars

\* -------------------------------------------------------------------------
\* The SQLite adapter: stored rows read back as blocks
\* -------------------------------------------------------------------------
\* DbError values: the variant and what it carries
DbMessages == {<<"pool timed out">>, <<"no such table: blocks">>}
DbErrors ==
    {[kind |-> "NotFound", args |-> <<>>],
     [kind |-> "Duplicate", args |-> <<>>],
     [kind |-> "Sqlx", args |-> <<<<"UNIQUE constraint failed">>>>],
     [kind |-> "InvalidDatetime",
      args |-> <<"created_at", <<"not-a-date">>>>]}
    \cup {[kind |-> k, args |-> <<msg>>] :
             k \in {"Sqlx", "Migration", "Serialization", "Pool",
                    "SchemaInvalid"},
             msg \in DbMessages}

\* the Display of DbError (#[error("...")])
DbError_to_string(err) ==
    CASE err.kind = "Sqlx" -> <<"database error: ">> \o err.args[1]
      [] err.kind = "Migration" -> <<"migration error: ">> \o err.args[1]
      [] err.kind = "Serialization" ->
            <<"serialization error: ">> \o err.args[1]
      [] err.kind = "NotFound" -> <<"record not found">>
      [] err.kind = "Duplicate" -> <<"duplicate record">>
      [] err.kind = "Pool" -> <<"connection pool error: ">> \o err.args[1]
      [] err.kind = "InvalidDatetime" ->
            <<"invalid datetime format in field '", err.args[1], "': ">>
                \o err.args[2]
      [] err.kind = "SchemaInvalid" ->
            <<"database schema invalid: ">> \o err.args[1]

\* impl From<DbError> for RepoError
RepoError_from_DbError(err) ==
    CASE err.kind = "NotFound" -> [kind |-> "NotFound", args |-> <<>>]
      [] err.kind = "Duplicate" -> [kind |-> "Duplicate", args |-> <<>>]
      [] err.kind = "Sqlx" ->
            IF err.args[1] = <<"UNIQUE constraint failed">>
            THEN [kind |-> "Duplicate", args |-> <<>>]
            ELSE [kind |-> "Database", args |-> <<err.args[1]>>]
      [] OTHER -> [kind |-> "Database", args |-> <<DbError_to_string(err)>>]

\* what a content_json column may hold: the encodings of Text { body: "a" }
\* and damaged ones
ContentJsons ==
    {<<"{", "type:text", "body:a", "}">>,
     <<"{", "body:a", "type:text", "}">>,
     <<"{", "type:text", "body:a">>,
     <<"{", "type:code", "body:a", "}">>,
     <<"{", "type:text", "}">>,
     <<"body:a">>,
     <<>>}

\* serde_json::from_str::<BlockContent> of an internally tagged Text:
\* Ok(body) or Err(message)
serde_json_from_str(json) ==
    LET fields == {json[i] : i \in 2..(Len(json) - 1)}
    IN  IF json = <<>>
        THEN [ok |-> FALSE, val |-> <<"EOF while parsing a value">>]
        ELSE IF json[1] # "{"
        THEN [ok |-> FALSE, val |-> <<"invalid type">>]
        ELSE IF json[Len(json)] # "}"
        THEN [ok |-> FALSE, val |-> <<"EOF while parsing an object">>]
        ELSE IF fields \cap {"type:text", "type:code"} = {}
        THEN [ok |-> FALSE, val |-> <<"missing field type">>]
        ELSE IF "type:text" \notin fields
        THEN [ok |-> FALSE, val |-> <<"unknown variant">>]
        ELSE IF "body:a" \notin fields
        THEN [ok |-> FALSE, val |-> <<"missing field body">>]
        ELSE [ok |-> TRUE, val |-> <<"a">>]

\* what a created_at or updated_at column may hold
Timestamps ==
    {<<"2024-01-15", "T", "10:30:00", "Z">>,
     <<"2024-01-15", "T", "10:30:00", "+05:00">>,
     <<"2024-01-15", " ", "10:30:00">>,
     <<"not-a-date">>,
     <<>>}

\* parse_datetime(value, field): DateTime::parse_from_rfc3339, then the
\* instant in UTC (here the minute of the day); Ok(instant) or
\* Err(DbError::InvalidDatetime)
parse_datetime(value, field) ==
    IF /\ Len(value) = 4
       /\ value[1] = "2024-01-15"
       /\ value[2] = "T"
       /\ value[3] = "10:30:00"
       /\ value[4] \in {"Z", "+05:00"}
    THEN [ok |-> TRUE, val |-> IF value[4] = "Z" THEN 630 ELSE 330]
    ELSE [ok |-> FALSE,
          val |-> [kind |-> "InvalidDatetime", args |-> <<field, value>>]]

StoredBlockRows ==
    [content_json : ContentJsons, created_at : Timestamps,
     updated_at : Timestamps]

\* BlockRow::into_block: the content is decoded, then created_at and
\* updated_at are parsed; the first failure is returned as a RepoError
into_block(row) ==
    LET content == serde_json_from_str(row.content_json)
        created_at == parse_datetime(row.created_at, "created_at")
        updated_at == parse_datetime(row.updated_at, "updated_at")
    IN  IF ~content.ok
        THEN [ok |-> FALSE,
              val |-> RepoError_from_DbError(
                          [kind |-> "Serialization",
                           args |-> <<content.val>>])]
        ELSE IF ~created_at.ok
        THEN [ok |-> FALSE, val |-> RepoError_from_DbError(created_at.val)]
        ELSE IF ~updated_at.ok
        THEN [ok |-> FALSE, val |-> RepoError_from_DbError(updated_at.val)]
        ELSE [ok |-> TRUE,
              val |-> [content |-> content.val, created_at |-> created_at.val,
                       updated_at |-> updated_at.val]]

\* GardenService::get_block over SqliteBlockRepository::get, for a block
\* whose row is stored: Ok(block), or the RepoError as
\* DomainError::Repository
SqliteGetBlock(p) ==
    /\ CanCall(p)
    /\ \E row \in StoredBlockRows :
           LET r == into_block(row)
           IN  Apply(p, Out(Store,
                            Finish([Call("sqlite_get_block", "call",
                                         UnknownId, UnknownId, <<>>, None,
                                         <<>>)
                                       EXCEPT !.row = Some(row)],
                                   IF r.ok THEN "Ok" ELSE "Err",
                                   IF r.ok THEN <<r.val>>
                                   ELSE <<[kind |-> "Repository",
                                           args |-> <<r.val>>]>>)))

\* a failure of the adapter reaches the service through
\* From<DbError> for RepoError
IntoRepoError(p) ==
    /\ CanCall(p)
    /\ \E err \in DbErrors :
           Apply(p, Out(Store,
                        Finish([Call("into_repo_error", "call", UnknownId,
                                     UnknownId, <<>>, None, <<>>)
                                   EXCEPT !.row = Some(err)],
                               "Err",
                               <<[kind |-> "Repository",
                                  args |-> <<RepoError_from_DbError(err)>>]>>)))

SqliteRowNext ==
    \E p \in SeqProcs :
        \/ SqliteGetBlock(p)
        \/ IntoRepoError(p)
        \/ Return(p)

SqliteRowSpec == Init /\ [][SqliteRowNext]_vars

\* -------------------------------------------------------------------------
\* Page: the page arithmetic
\* -------------------------------------------------------------------------
\* the largest total, offset and limit of the pages built
MaxTotal == 5

has_prev(self) == self.offset > 0

\* a page_number that rounds the quotient up (fault injected to show that
\* C37 depends on the floor)
page_number_rounded_up(self) ==
    IF self.limit = 0 THEN 0
    ELSE (self.offset + self.limit - 1) \div self.limit

\* Page::page_number
page_number(self) ==
    IF self.limit = 0 THEN 0 ELSE self.offset \div self.limit

\* usize::div_ceil: the quotient, plus one when there is a remainder
div_ceil(lhs, rhs) ==
    LET d == lhs \div rhs
        r == lhs % rhs
    IN  IF r > 0 THEN d + 1 ELSE d

\* Page::total_pages
total_pages(self) ==
    IF self.limit = 0 THEN 1 ELSE div_ceil(self.total, self.limit)

\* a page is built and asked for its page number, its number of pages and
\* whether a page precedes it
PageNumbers(p) ==
    /\ CanCall(p)
    /\ \E total \in 0..MaxTotal, offset \in 0..MaxTotal, limit \in 0..MaxTotal :
           LET page == Page_new(<<>>, total, offset, limit)
           IN  Apply(p, Out(Store,
                            Finish([Call("page", "call", UnknownId, UnknownId,
                                         <<>>, None, <<>>)
                                       EXCEPT !.row = Some(page)],
                                   "Ok",
                                   <<[page_number |-> page_number(page),
                                      total_pages |-> total_pages(page),
                                      has_prev |-> has_prev(page)]>>)))

PageNext ==
    \E p \in Procs :
        \/ PageNumbers(p)
        \/ Return(p)

PageSpec == Init /\ [][PageNext]_vars

\* -------------------------------------------------------------------------
\* The channel_list command
\* -------------------------------------------------------------------------
\* the limit taken when none is given and the largest limit passed on
LimitDefault == 20
LimitCap == 100

\* Option::unwrap_or
unwrap_or(option, default) == IF option = None THEN default ELSE option[1]

\* the limits and offsets a caller of channel_list asks for
RequestedLimits ==
    {None} \cup {Some(n) : n \in (0..MaxChannels) \cup {LimitDefault,
                                   LimitCap - 1, LimitCap, LimitCap + 1, 1000}}
RequestedOffsets == {None} \cup {Some(n) : n \in 0..(MaxChannels + 1)}

\* a channel_list that passes the requested limit on as it is (fault
\* injected to show that C38 depends on the cap)
channel_list_limit_uncapped(limit) == unwrap_or(limit, LimitDefault)

\* let limit = limit.unwrap_or(20).min(100)
channel_list_limit(limit) ==
    LET n == unwrap_or(limit, LimitDefault)
    IN  IF n <= LimitCap THEN n ELSE LimitCap

\* let offset = offset.unwrap_or(0)
channel_list_offset(offset) == unwrap_or(offset, 0)

\* channel_list(limit, offset): the service's list_channels with the limit
\* and offset the command settled on
ChannelList(p) ==
    /\ CanCall(p)
    /\ \E limit \in RequestedLimits, offset \in RequestedOffsets,
          order \in IterationOrders(channel_rows) :
           Apply(p, Out(Store,
                        Finish([Call("channel_list", "call", UnknownId,
                                     UnknownId, <<>>, limit, <<>>)
                                   EXCEPT !.pos = offset],
                               "Ok",
                               <<RepoList(channel_rows, order,
                                          channel_list_limit(limit),
                                          channel_list_offset(offset))>>)))

CommandNext ==
    \/ \E p \in SeqProcs :
           \/ CreateChannel(p)
           \/ DeleteChannel(p)
           \/ ChannelList(p)
           \/ Return(p)
    \/ Tick

CommandSpec == Init /\ [][CommandNext]_vars

\* -------------------------------------------------------------------------
\* FieldUpdate on its own
\* -------------------------------------------------------------------------
\* an is_update that reports only Set as an update (fault injected to show
\* that C39 depends on Clear counting as one)
is_update_set_only(self) == self.action = "set"

\* FieldUpdate::is_update: !matches!(self, Self::Keep)
is_update(self) == ~(self.action = "keep")

\* is_update is asked of a field update that is about to meet a current
\* value
IsUpdate(p) ==
    /\ CanCall(p)
    /\ \E self \in FieldUpdates, current \in OptMetaStrs :
           Apply(p, Out(Store,
                        Finish([ApplyCall(self, current)
                                   EXCEPT !.op = "is_update"],
                               "Ok", <<is_update(self)>>)))

FieldUpdateNext ==
    \E p \in Procs :
        \/ IsUpdate(p)
        \/ ApplyFieldUpdate(p)
        \/ Return(p)

FieldUpdateSpec == Init /\ [][FieldUpdateNext]_vars

\* -------------------------------------------------------------------------
\* The in-memory stores behind their RwLocks
\* -------------------------------------------------------------------------
\* a guard on one of the three shared stores, as a caller holds it
ReadLock(store) == [store |-> store, mode |-> "read"]
WriteLock(store) == [store |-> store, mode |-> "write"]

\* a delete that removes the connections of the deleted row while it still
\* holds the write lock of its own store (fault injected to show that C40
\* depends on no write lock being awaited under another lock)
LocksOfCascadingDelete(pr) ==
    CASE pr.op = "delete_block" /\ pr.pc = "delete" ->
            <<WriteLock("blocks"), WriteLock("connections")>>
      [] pr.op = "delete_channel" /\ pr.pc = "delete" ->
            <<WriteLock("channels"), WriteLock("connections")>>
      [] pr.op \in {"delete_block", "update_block"} ->
            <<ReadLock("blocks")>>
      [] pr.op \in {"delete_channel", "update_channel"} ->
            <<ReadLock("channels")>>
      [] pr.op = "get_blocks_in_channel" ->
            <<ReadLock("connections"), ReadLock("blocks")>>
      [] pr.op = "get_channels_for_block" ->
            <<ReadLock("connections"), ReadLock("channels")>>
      [] OTHER -> <<ReadLock("connections")>>

\* the locks that the repository call of the caller's next step takes, in
\* the order in which it takes them; all are released when the call returns
LocksOf(pr) ==
    CASE pr.op = "create_channel" ->
            IF validate_channel_title(pr.text) # "Ok" THEN <<>>
            ELSE <<WriteLock("channels")>>
      [] pr.op = "create_block" ->
            IF validate_text(pr.text) # "Ok" THEN <<>>
            ELSE <<WriteLock("blocks")>>
      [] pr.op \in {"update_channel", "delete_channel"} ->
            IF pr.pc = "get" THEN <<ReadLock("channels")>>
            ELSE <<WriteLock("channels")>>
      [] pr.op \in {"update_block", "delete_block"} ->
            IF pr.pc = "get" THEN <<ReadLock("blocks")>>
            ELSE <<WriteLock("blocks")>>
      [] pr.op \in {"connect_block", "connect_blocks"} ->
            CASE pr.pc = "get_block" -> <<ReadLock("blocks")>>
              [] pr.pc = "get_channel" -> <<ReadLock("channels")>>
              [] pr.pc \in {"connect", "connect_batch"} ->
                    <<WriteLock("connections")>>
              [] OTHER -> <<ReadLock("connections")>>
      [] pr.op \in {"disconnect_block", "reorder_block"} ->
            IF pr.pc = "get" THEN <<ReadLock("connections")>>
            ELSE <<WriteLock("connections")>>
      [] pr.op = "get_blocks_in_channel" ->
            <<ReadLock("connections"), ReadLock("blocks")>>
      [] pr.op = "get_channels_for_block" ->
            <<ReadLock("connections"), ReadLock("channels")>>
      [] pr.op \in {"get_connection", "next_position"} ->
            <<ReadLock("connections")>>
      [] OTHER -> <<>>

InCall(p) == procs[p].pc \notin {"idle", "done"}

\* the lock that caller p asks for next, if its repository call still
\* lacks one
NextLock(p) ==
    IF InCall(p) /\ Len(procs[p].locks) < Len(LocksOf(procs[p]))
    THEN <<LocksOf(procs[p])[Len(procs[p].locks) + 1]>>
    ELSE <<>>

\* RwLock: read() is granted while no other caller holds the write guard,
\* write() while no other caller holds any guard of the store
CanLock(p, lock) ==
    \A q \in Procs \ {p} :
        \A i \in 1..Len(procs[q].locks) :
            procs[q].locks[i].store = lock.store =>
                lock.mode = "read" /\ procs[q].locks[i].mode = "read"

\* the calls of the callers that contend for the locks
LockCalls ==
    {ConnectBlockCall(1, 1, Some(0)), DisconnectBlockCall(1, 1),
     DeleteBlockCall(1), DeleteChannelCall(1), GetBlocksInChannelCall(1),
     GetChannelsForBlockCall(1), NextPositionCall(1),
     UpdateBlockCall(1, [NoBlockUpdate EXCEPT !.notes = Some(Clear)])}

\* a caller enters an operation of the service
Enter(p) ==
    /\ CanCall(p)
    /\ \E call \in LockCalls : procs' = [procs EXCEPT ![p] = call]
    /\ UNCHANGED <<blocks, channels, block_rows, channel_rows, connections,
                   now, next_block_id, next_channel_id>>

\* self.<store>.read() or .write() returns its guard
Acquire(p) ==
    /\ NextLock(p) # <<>>
    /\ CanLock(p, NextLock(p)[1])
    /\ procs' = [procs EXCEPT ![p].locks = Append(@, NextLock(p)[1])]
    /\ UNCHANGED <<blocks, channels, block_rows, channel_rows, connections,
                   now, next_block_id, next_channel_id>>

\* with its guards in hand the repository call runs and returns, which
\* drops the guards
RunLocked(p) ==
    /\ InCall(p)
    /\ NextLock(p) = <<>>
    /\ \E checks \in BOOLEAN :
           LET r == ServiceStep(Store, procs[p], checks)
           IN  Apply(p, [r EXCEPT !.pr.locks = <<>>])

LockNext ==
    \E p \in Procs :
        \/ Enter(p)
        \/ Acquire(p)
        \/ RunLocked(p)
        \/ Return(p)

LockSpec == RaceInit /\ [][LockNext]_vars

\* fair scheduling: a caller that can run does, and a caller that can get
\* its lock again and again gets it
LockLiveSpec ==
    /\ LockSpec
    /\ \A p \in Procs : WF_vars(RunLocked(p)) /\ SF_vars(Acquire(p))

\* -------------------------------------------------------------------------
\* Properties
\* -------------------------------------------------------------------------
\* caller p goes from idle to the end of a call of op in this step
Returns(p, op) ==
    /\ procs[p].pc = "idle"
    /\ procs'[p].op = op
    /\ procs'[p].pc = "done"

\* caller p takes a step of op (its first step included)
Steps(p, op) ==
    /\ procs'[p] # procs[p]
    /\ procs'[p].op = op

PositionsIn(conns, c) ==
    {conns[i].position : i \in {j \in 1..Len(conns) : conns[j].channel_id = c}}

\* n is 0 for a channel without connections and the largest position + 1
\* otherwise (no i32 is the largest position + 1 when that is 2147483647)
IsNextPosition(n, conns, c) ==
    LET S == PositionsIn(conns, c)
    IN  IF S = {} THEN n = 0
        ELSE LET m == CHOOSE x \in S : \A y \in S : y <= x
             IN  m < I32Max /\ n = m + 1

\* C1: in every reachable state the connection store holds at most one
\* connection for any (block_id, channel_id) pair.
C1_UniquePairs ==
    \A i, j \in 1..Len(connections) :
        (/\ connections[i].block_id = connections[j].block_id
         /\ connections[i].channel_id = connections[j].channel_id) => i = j

\* the insert of a connect_block call by caller p: Duplicate, nothing written
\* and the call over when the pair is in the store, one connection written
\* and the call going on to its re-fetch otherwise; either way the store
\* then holds the pair once
C2_Insert(p) ==
    LET pr == procs[p]
    IN  (pr.op = "connect_block" /\ pr.pc = "connect" /\ procs'[p] # pr) =>
            /\ IF HasConnection(connections, pr.block_id, pr.channel_id)
               THEN /\ connections' = connections
                    /\ procs'[p].pc = "done"
                    /\ procs'[p].result.tag = "RepoDuplicate"
               ELSE /\ connections' =
                           Append(connections,
                                  Connection(pr.block_id, pr.channel_id,
                                             pr.pos[1]))
                    /\ procs'[p].pc = "refetch"
            /\ Cardinality({i \in 1..Len(connections') :
                   SamePair(connections'[i], pr.block_id, pr.channel_id)}) = 1

\* two connect_block calls for one pair that are both over
C2_BothOver(p, q) ==
    /\ p # q
    /\ procs[p].op = "connect_block" /\ procs[p].pc = "done"
    /\ procs[q].op = "connect_block" /\ procs[q].pc = "done"
    /\ procs[p].block_id = procs[q].block_id
    /\ procs[p].channel_id = procs[q].channel_id

\* C2: when connect_block calls for one pair interleave so that each passes
\* the already-connected check before any inserts, the insert that finds the
\* pair in the store fails with Repository(Duplicate), writes nothing and
\* ends its call without a retry; after every insert attempt the store holds
\* the pair exactly once.
C2_RaceLoserGetsDuplicate == [][\A p \in Procs : C2_Insert(p)]_vars

C2_Witness ==
    \E p, q \in Procs :
        /\ C2_BothOver(p, q)
        /\ procs[p].result.tag = "Ok"
        /\ procs[q].result.tag = "RepoDuplicate"

\* C3: a connect_block(b, c, p') made while (b, c) is connected returns
\* InvalidInput for every p', a repository connect of the pair returns
\* Duplicate, and the store (so the position of the pair) stays as it was.
C3_ConnectedPairRejected ==
    [][\A p \in Procs :
          (/\ Returns(p, "connect_block")
           /\ HasConnection(connections, procs'[p].block_id,
                            procs'[p].channel_id)) =>
              /\ procs'[p].result.tag = "InvalidInput"
              /\ connections' = connections
              /\ \A pos \in Positions :
                     RepoConnect(connections, procs'[p].block_id,
                                 procs'[p].channel_id, pos).err = "Duplicate"
      ]_vars

\* C4: after a successful delete_channel(c) no connection of channel c
\* remains and the blocks are as before; after a successful delete_block(b)
\* no connection of block b remains and the channels are as before.
C4_DeleteCascades ==
    [][\A p \in Procs :
          /\ (Returns(p, "delete_channel") /\ procs'[p].result.tag = "Ok") =>
                 /\ \A i \in 1..Len(connections') :
                        connections'[i].channel_id # procs'[p].channel_id
                 /\ blocks' = blocks
          /\ (Returns(p, "delete_block") /\ procs'[p].result.tag = "Ok") =>
                 /\ \A i \in 1..Len(connections') :
                        connections'[i].block_id # procs'[p].block_id
                 /\ channels' = channels
      ]_vars

\* C5: in every reachable state, also with a delete between a connect's
\* existence checks and its insert, each stored connection references a
\* stored block and a stored channel.
C5_NoDanglingConnection ==
    \A i \in 1..Len(connections) :
        /\ connections[i].block_id \in blocks
        /\ connections[i].channel_id \in channels

\* C6: next_position(c) returns 0 when channel c has no connections and
\* otherwise the largest position among the connections of c plus 1.
C6_NextPositionIsMaxPlusOne ==
    \A p \in Procs :
        (procs[p].op = "next_position" /\ procs[p].pc = "done") =>
            /\ procs[p].result.tag = "Ok"
            /\ IsNextPosition(procs[p].result.val[1], connections,
                              procs[p].channel_id)

\* C7: get_blocks_in_channel(c) returns one (block, position) entry for
\* every connection of channel c and nothing else, in non-decreasing order
\* of position.
C7_OneEntryPerConnectionSorted ==
    \A p \in Procs :
        (procs[p].op = "get_blocks_in_channel" /\ procs[p].pc = "done") =>
            LET r == procs[p].result.val
                cs == SelectSeqBy(connections, "channel", procs[p].channel_id)
            IN  /\ Len(r) = Len(cs)
                /\ \A k \in 1..Len(cs) :
                       Cardinality({i \in 1..Len(r) :
                           /\ r[i].block_id = cs[k].block_id
                           /\ r[i].position = cs[k].position})
                       = Cardinality({i \in 1..Len(cs) :
                           /\ cs[i].block_id = cs[k].block_id
                           /\ cs[i].position = cs[k].position})
                /\ \A i \in 1..(Len(r) - 1) : r[i].position <= r[i + 1].position

\* C8: a connect_block(b, c, position) that returns Ok returns the connection
\* of (b, c) at the caller's position when one is given and otherwise at
\* next_position(c) as of before the insert: 0 for a channel without
\* connections, the largest position + 1 otherwise.
C8_ReturnedPosition ==
    [][\A p \in Procs :
          (Returns(p, "connect_block") /\ procs'[p].result.tag = "Ok") =>
              LET pr == procs'[p]
                  conn == pr.result.val[1]
              IN  /\ conn.block_id = pr.block_id
                  /\ conn.channel_id = pr.channel_id
                  /\ IF pr.position # None
                     THEN conn.position = pr.position[1]
                     ELSE IsNextPosition(conn.position, connections,
                                         pr.channel_id)
      ]_vars

\* C9: a connect_blocks(block_ids, c, start) that returns Ok has appended a
\* connection of block_ids[i] to c at position s + i for every index i (s
\* is start when given, next_position(c) before the write otherwise) and
\* returns these len(block_ids) connections in input order.
C9_BatchPositions ==
    [][\A p \in Procs :
          (Returns(p, "connect_blocks") /\ procs'[p].result.tag = "Ok") =>
              LET pr == procs'[p]
                  n == Len(pr.block_ids)
              IN  \E s \in StoredPositions \cup {MaxPos + 2, I32Min + 1} :
                      /\ pr.position # None => s = pr.position[1]
                      /\ pr.position = None =>
                             IsNextPosition(s, connections, pr.channel_id)
                      /\ n > 0 => s <= I32Max - (n - 1)
                      /\ LET made == [i \in 1..n |->
                                 Connection(pr.block_ids[i], pr.channel_id,
                                            s + (i - 1))]
                         IN  /\ connections' = connections \o made
                             /\ pr.result.val = made
      ]_vars

C11_ConnectBatchAllOrNothing ==
    [][\A p \in Procs :
          Returns(p, "repo_connect_batch") =>
              LET batch == BatchTuples(procs'[p].block_ids,
                                       procs'[p].channel_id,
                                       procs'[p].position[1])
              IN  IF \E k \in 1..Len(batch) :
                         HasConnection(connections, batch[k].block_id,
                                       batch[k].channel_id)
                  THEN /\ procs'[p].result.tag = "RepoDuplicate"
                       /\ connections' = connections
                  ELSE /\ procs'[p].result.tag = "Ok"
                       /\ connections' = connections \o batch
      ]_vars

\* a batch refused although its first tuple names a pair that is not stored
C11_Witness ==
    \E p \in Procs :
        /\ procs[p].op = "repo_connect_batch"
        /\ procs[p].pc = "done"
        /\ procs[p].result.tag = "RepoDuplicate"
        /\ Len(procs[p].block_ids) = 2
        /\ ~HasConnection(connections, procs[p].block_ids[1],
                          procs[p].channel_id)
        /\ HasConnection(connections, procs[p].block_ids[2],
                         procs[p].channel_id)

\* the stores after the step
StoreAfter ==
    [blocks |-> blocks', channels |-> channels', block_rows |-> block_rows',
     channel_rows |-> channel_rows', connections |-> connections',
     now |-> now', next_block_id |-> next_block_id',
     next_channel_id |-> next_channel_id']

\* C13: when disconnect_block(b, c) succeeds, get_connection(b, c) reports no
\* connection, and a connect_block(b, c, p') made then succeeds for every
\* position p' (b and c being still stored); a successful disconnect_block
\* is always of a pair that was connected, so this holds round after round.
C13_DisconnectThenConnectAgain ==
    [][\A p \in Procs :
          (/\ Steps(p, "disconnect_block")
           /\ procs'[p].pc = "done"
           /\ procs'[p].result.tag = "Ok") =>
              LET b == procs'[p].block_id
                  c == procs'[p].channel_id
              IN  /\ HasConnection(connections, b, c)
                  /\ Run(StoreAfter, GetConnectionCall(b, c), TRUE).pr.result
                         = [tag |-> "ConnectionNotFound",
                            val |-> ConnectionNotFound(b, c)]
                  /\ (b \in blocks' /\ c \in channels') =>
                         \A n \in Positions, checks \in BOOLEAN :
                             LET r == Run(StoreAfter,
                                          ConnectBlockCall(b, c, Some(n)),
                                          checks)
                             IN  /\ r.pr.result.tag = "Ok"
                                 /\ r.pr.result.val # <<>>
                                 /\ r.pr.result.val[1].position = n
      ]_vars

\* a second round: the pair is connected again after a disconnect_block of
\* it succeeded
C13_Witness ==
    \E p, q \in Procs :
        /\ procs[p].op = "disconnect_block"
        /\ procs[p].pc = "done"
        /\ procs[p].result.tag = "Ok"
        /\ procs[q].op = "connect_block"
        /\ procs[q].pc = "done"
        /\ procs[q].result.tag = "Ok"
        /\ procs[q].block_id = procs[p].block_id
        /\ procs[q].channel_id = procs[p].channel_id
        /\ HasConnection(connections, procs[p].block_id, procs[p].channel_id)

\* C14: a reorder_block(c, b, n) that succeeds overwrites the position of one
\* stored connection of the pair (b, c) with n and changes nothing else: the
\* other entries of the connection store, their order, their pairs and their
\* positions are the same, blocks and channels are untouched, and
\* get_connection(b, c) then reports n.  No position of another connection
\* makes the call fail.
C14_ReorderChangesOnePosition ==
    [][\A p \in Procs :
          (Returns(p, "reorder_block") /\ procs'[p].result.tag = "Ok") =>
              LET b == procs'[p].block_id
                  c == procs'[p].channel_id
                  n == procs'[p].position[1]
              IN  /\ \E i \in 1..Len(connections) :
                         /\ SamePair(connections[i], b, c)
                         /\ connections' =
                                [connections EXCEPT ![i].position = n]
                  /\ RepoGetConnection(connections', b, c) # <<>>
                  /\ RepoGetConnection(connections', b, c)[1].position = n
                  /\ UNCHANGED <<blocks, channels, block_rows, channel_rows>>
      ]_vars

\* a reorder_block has succeeded with the position another connection of the
\* channel holds
C14_Witness ==
    \E p \in Procs :
        /\ procs[p].op = "reorder_block"
        /\ procs[p].pc = "done"
        /\ procs[p].result.tag = "Ok"
        /\ \E i, j \in 1..Len(connections) :
               /\ SamePair(connections[i], procs[p].block_id,
                           procs[p].channel_id)
               /\ connections[j].channel_id = procs[p].channel_id
               /\ connections[j].block_id # procs[p].block_id
               /\ connections[i].position = procs[p].position[1]
               /\ connections[j].position = procs[p].position[1]

\* C15: the first step of disconnect_block(b, c) and of reorder_block(c, b, n)
\* looks for the connection: when the pair (b, c) is not connected the call
\* ends there with ConnectionNotFound(b, c), and the connection store is as
\* it was; whatever other callers do meanwhile.
C15_UnconnectedPairNotFound ==
    [][\A p \in Procs :
          (/\ Steps(p, "disconnect_block") \/ Steps(p, "reorder_block")
           /\ procs[p].pc = "idle"
           /\ ~HasConnection(connections, procs'[p].block_id,
                             procs'[p].channel_id)) =>
              /\ procs'[p].pc = "done"
              /\ procs'[p].result =
                     [tag |-> "ConnectionNotFound",
                      val |-> ConnectionNotFound(procs'[p].block_id,
                                                 procs'[p].channel_id)]
              /\ connections' = connections
      ]_vars

\* a reorder_block of a stored block and a stored channel that are not
\* connected has ended in ConnectionNotFound
C15_Witness ==
    \E p \in Procs :
        /\ procs[p].op = "reorder_block"
        /\ procs[p].pc = "done"
        /\ procs[p].result.tag = "ConnectionNotFound"
        /\ procs[p].block_id \in blocks
        /\ procs[p].channel_id \in channels
        /\ ~HasConnection(connections, procs[p].block_id,
                          procs[p].channel_id)

\* C16: connect_block checks the block, then the channel, then the pair, one
\* step each, and writes nothing in these steps: the first step ends the
\* call with BlockNotFound when the block is not stored, whatever the
\* channel; the second ends it with ChannelNotFound when the channel is not
\* stored; the third ends it with InvalidInput when the pair is connected;
\* and none of the three errors comes from any other step.
C16_ConnectBlockCheckOrder ==
    [][\A p \in Procs :
          Steps(p, "connect_block") =>
              LET b == procs'[p].block_id
                  c == procs'[p].channel_id
                  ends(tag) == /\ procs'[p].pc = "done"
                               /\ procs'[p].result.tag = tag
              IN  /\ procs[p].pc = "idle" =>
                         /\ connections' = connections
                         /\ IF b \notin blocks THEN ends("BlockNotFound")
                            ELSE procs'[p].pc = "get_channel"
                  /\ procs[p].pc = "get_channel" =>
                         /\ connections' = connections
                         /\ IF c \notin channels THEN ends("ChannelNotFound")
                            ELSE procs'[p].pc = "get_connection"
                  /\ procs[p].pc = "get_connection" =>
                         /\ connections' = connections
                         /\ IF HasConnection(connections, b, c)
                            THEN ends("InvalidInput")
                            ELSE procs'[p].pc \in {"next_position", "connect"}
                  /\ ends("BlockNotFound") => procs[p].pc = "idle"
                  /\ ends("ChannelNotFound") => procs[p].pc = "get_channel"
                  /\ ends("InvalidInput") => procs[p].pc = "get_connection"
      ]_vars

\* a connect_block naming a block and a channel that are both not stored has
\* ended in BlockNotFound
C16_Witness ==
    \E p \in Procs :
        /\ procs[p].op = "connect_block"
        /\ procs[p].pc = "done"
        /\ procs[p].result.tag = "BlockNotFound"
        /\ procs[p].block_id \notin blocks
        /\ procs[p].channel_id \notin channels

\* C18: FieldUpdate::apply gives the current value for Keep, None for Clear
\* and Some(v) for Set(v), whatever the current value is.
C18_ApplyByVariant ==
    \A p \in Procs :
        (procs[p].op = "apply" /\ procs[p].pc = "done") =>
            LET self == procs[p].channel_update.description
                current == procs[p].description
                out == procs[p].result.val
            IN  /\ self = Keep => out = current
                /\ self = Clear => out = None
                /\ \A v \in MetaStrs : self = Set(v) => out = Some(v)

\* Set(v) has been applied to a present value other than v
C18_Witness ==
    \E p \in Procs :
        /\ procs[p].op = "apply"
        /\ procs[p].pc = "done"
        /\ procs[p].channel_update.description.action = "set"
        /\ procs[p].description # None
        /\ procs[p].description
               # Some(procs[p].channel_update.description.value)
        /\ procs[p].result.val
               = Some(procs[p].channel_update.description.value)

\* C19: an update_block that succeeds gives each of the five metadata fields
\* the value its own update asks for, whatever the other four updates are:
\* the stored value is the same when the update is omitted or Keep, absent
\* for Clear, v for Set(v); the block keeps its id and created_at, and its
\* content when the payload has none; no other block is touched.
C19_UpdateBlockFieldByField ==
    [][\A p \in Procs :
          (Returns(p, "update_block") /\ procs'[p].result.tag = "Ok") =>
              LET id == procs'[p].block_id
                  update == procs'[p].block_update
                  old == block_rows[id]
                  new == block_rows'[id]
              IN  /\ \A f \in MetaFields :
                         /\ update[f] \in {None, Some(Keep)} =>
                                new[f] = old[f]
                         /\ update[f] = Some(Clear) => new[f] = None
                         /\ \A v \in MetaStrs :
                                update[f] = Some(Set(v)) => new[f] = Some(v)
                  /\ new.id = old.id
                  /\ new.created_at = old.created_at
                  /\ update.content = None => new.content = old.content
                  /\ update.content # None =>
                         new.content = update.content[1]
                  /\ blocks' = blocks
                  /\ \A x \in blocks \ {id} : block_rows'[x] = block_rows[x]
      ]_vars

\* an update_block has set one field, cleared another and left out a third
\* that holds a value, some time after the block was created
C19_Witness ==
    \E p \in Procs :
        /\ procs[p].op = "update_block"
        /\ procs[p].pc = "done"
        /\ procs[p].result.tag = "Ok"
        /\ procs[p].block_update.notes = Some(Set(<<"a">>))
        /\ procs[p].block_update.creator = Some(Clear)
        /\ procs[p].block_update.source_url = None
        /\ procs[p].block_update.content = None
        /\ block_rows[procs[p].block_id].source_url = Some(<<"a">>)
        /\ block_rows[procs[p].block_id].notes = Some(<<"a">>)
        /\ block_rows[procs[p].block_id].creator = None
        /\ block_rows[procs[p].block_id].content = <<"b">>
        /\ block_rows[procs[p].block_id].created_at
               # block_rows[procs[p].block_id].updated_at

\* every stored channel has a title that is not empty once trimmed
C20_TitlesNotBlank(chans, rows) == \A c \in chans : Trim(rows[c].title) # <<>>

\* the title a create_channel or update_channel call passes, if any
C20_Title(pr) ==
    IF pr.op = "create_channel" THEN Some(pr.text)
    ELSE pr.channel_update.title

C20_BlankTitleCall(p) ==
    /\ Returns(p, "create_channel") \/ Returns(p, "update_channel")
    /\ C20_Title(procs'[p]) # None
    /\ Trim(C20_Title(procs'[p])[1]) = <<>>

\* C20 as stated: stored titles are never blank, and every create_channel or
\* update_channel call with a blank title fails with InvalidInput and
\* changes no stored channel.
C20_BlankTitleAlwaysInvalidInput ==
    [][/\ C20_TitlesNotBlank(channels', channel_rows')
       /\ \A p \in Procs :
              C20_BlankTitleCall(p) =>
                  /\ procs'[p].result.tag = "InvalidInput"
                  /\ channels' = channels
                  /\ channel_rows' = channel_rows
      ]_vars

\* C20, amended: stored titles are never blank; a create_channel, or an
\* update_channel of a stored channel, with a blank title fails with
\* InvalidInput and changes no stored channel (no channel is created, and
\* title, description and updated_at of the channel are as before); an
\* update_channel naming a channel that is not stored fails with
\* ChannelNotFound before the title is looked at, and changes nothing either.
C20_BlankTitleRejected ==
    [][/\ C20_TitlesNotBlank(channels, channel_rows)
       /\ C20_TitlesNotBlank(channels', channel_rows')
       /\ \A p \in Procs :
              C20_BlankTitleCall(p) =>
                  /\ procs'[p].result.tag =
                         IF /\ procs'[p].op = "update_channel"
                            /\ procs'[p].channel_id \notin channels
                         THEN "ChannelNotFound"
                         ELSE "InvalidInput"
                  /\ channels' = channels
                  /\ channel_rows' = channel_rows
                  /\ next_channel_id' = next_channel_id
      ]_vars

\* an update_channel that asks for a blank title and another description has
\* been refused, some time after the last change of the channel
C20_Witness ==
    \E p \in Procs :
        /\ procs[p].op = "update_channel"
        /\ procs[p].pc = "done"
        /\ procs[p].result.tag = "InvalidInput"
        /\ procs[p].channel_update.title = Some(<<" ">>)
        /\ procs[p].channel_update.description = Clear
        /\ procs[p].channel_id \in channels
        /\ channel_rows[procs[p].channel_id].description # None
        /\ channel_rows[procs[p].channel_id].updated_at # now

\* C12: create_blocks stores every block of the batch or none.  A call with
\* an item that fails validation ends in InvalidInput; a call that does not
\* end in Ok leaves the block store as it was, valid items before the
\* invalid one included; a call that ends in Ok has stored one new block per
\* item, with the item's content.  The repository's create_batch likewise
\* stores nothing when it fails with Duplicate.
C12_CreateBlocksAllOrNothing ==
    [][\A p \in Procs :
          /\ Returns(p, "create_blocks") =>
                 LET contents == procs'[p].contents
                     n == Len(contents)
                 IN  /\ (\E k \in 1..n : Trim(contents[k]) = <<>>) =>
                            procs'[p].result.tag = "InvalidInput"
                     /\ procs'[p].result.tag # "Ok" =>
                            blocks' = blocks /\ block_rows' = block_rows
                     /\ procs'[p].result.tag = "Ok" =>
                            /\ blocks' \ blocks =
                                   {next_block_id + (k - 1) : k \in 1..n}
                            /\ Cardinality(blocks' \ blocks) = n
                            /\ blocks \subseteq blocks'
                            /\ \A k \in 1..n :
                                   block_rows'[next_block_id + (k - 1)]
                                       .content = contents[k]
                            /\ \A x \in blocks :
                                   block_rows'[x] = block_rows[x]
          /\ Returns(p, "repo_create_batch") =>
                 LET ids == procs'[p].block_ids
                 IN  IF \E k \in 1..Len(ids) : ids[k] \in blocks
                     THEN /\ procs'[p].result.tag = "RepoDuplicate"
                          /\ blocks' = blocks
                          /\ block_rows' = block_rows
                     ELSE /\ procs'[p].result.tag = "Ok"
                          /\ blocks' =
                                 blocks \cup {ids[k] : k \in 1..Len(ids)}
      ]_vars

\* a batch whose first item is valid and whose second is not has been
\* refused, with a block already stored
C12_Witness ==
    \E p \in Procs :
        /\ procs[p].op = "create_blocks"
        /\ procs[p].pc = "done"
        /\ procs[p].result.tag = "InvalidInput"
        /\ Len(procs[p].contents) = 2
        /\ Trim(procs[p].contents[1]) # <<>>
        /\ Trim(procs[p].contents[2]) = <<>>
        /\ blocks # {}

\* the connected pairs of a connection store
Pairs(conns) ==
    {<<conns[i].block_id, conns[i].channel_id>> : i \in 1..Len(conns)}

C17_Connects(p, pair) ==
    /\ procs'[p].result.tag = "Ok"
    /\ \/ /\ Returns(p, "connect_block")
          /\ pair = <<procs'[p].block_id, procs'[p].channel_id>>
       \/ /\ Returns(p, "connect_blocks")
          /\ pair[2] = procs'[p].channel_id
          /\ \E k \in 1..Len(procs'[p].block_ids) :
                 pair[1] = procs'[p].block_ids[k]

C17_Disconnects(p, pair) ==
    /\ procs'[p].result.tag = "Ok"
    /\ \/ /\ Returns(p, "disconnect_block")
          /\ pair = <<procs'[p].block_id, procs'[p].channel_id>>
       \/ Returns(p, "delete_block") /\ pair[1] = procs'[p].block_id
       \/ Returns(p, "delete_channel") /\ pair[2] = procs'[p].channel_id

C17_LeavesPairsAlone(p) ==
    \/ \E op \in {"reorder_block", "update_block", "update_channel",
                   "create_block", "create_blocks", "create_channel",
                   "get_blocks_in_channel", "get_channels_for_block",
                   "get_connection", "next_position"} : Returns(p, op)
    \/ procs[p].pc = "idle" /\ procs'[p].pc = "done"
          /\ procs'[p].result.tag # "Ok"

\* C17: in every step, a pair that becomes connected is named by a
\* connect_block or connect_blocks that succeeds in that step, a pair that
\* becomes unconnected is named by a disconnect_block that succeeds in it
\* or has its block or channel deleted in it, and a step of reorder_block,
\* update_block, update_channel, a create, a read or a failed call leaves
\* the set of connected pairs as it was.
C17_PairsChangeOnlyByConnectAndDisconnect ==
    [][/\ \A pair \in Pairs(connections') \ Pairs(connections) :
              \E p \in Procs : C17_Connects(p, pair)
       /\ \A pair \in Pairs(connections) \ Pairs(connections') :
              \E p \in Procs : C17_Disconnects(p, pair)
       /\ \A p \in Procs :
              C17_LeavesPairsAlone(p) =>
                  Pairs(connections') = Pairs(connections)
      ]_vars

\* an update_block has succeeded on a block that is connected to two
\* channels
C17_Witness ==
    \E p \in Procs :
        /\ procs[p].op = "update_block"
        /\ procs[p].pc = "done"
        /\ procs[p].result.tag = "Ok"
        /\ Cardinality({c \in channels :
               HasConnection(connections, procs[p].block_id, c)}) = 2

\* C28: delete_channel, delete_block, update_channel and update_block on an
\* id that is not stored fail with ChannelNotFound or BlockNotFound and
\* never with the generic Repository(NotFound), also when two deletes of
\* the same id run concurrently and both pass the existence check.
C28_NeverGenericNotFound ==
    \A p \in Procs :
        (/\ procs[p].op \in {"delete_channel", "delete_block",
                            "update_channel", "update_block"}
         /\ procs[p].pc = "done") =>
            procs[p].result.tag # "RepoNotFound"

\* C27: the insert of a connect_block call made without a position stores a
\* position strictly greater than the position of every connection the
\* channel holds at that moment, also when several such calls for distinct
\* blocks interleave, so that concurrent appends never get equal positions.
C27_AppendAboveEveryPosition ==
    [][\A p \in Procs :
          (/\ procs[p].op = "connect_block"
           /\ procs[p].pc = "connect"
           /\ procs[p].position = None
           /\ procs'[p].pc = "refetch") =>
              \A i \in 1..Len(connections) :
                  connections[i].channel_id = procs[p].channel_id =>
                      procs[p].pos[1] > connections[i].position
      ]_vars

\* the metadata fields a block update touches
C30_Touched(update) == {f \in MetaFields : update[f] # None}

\* C30: once two concurrent update_block calls on one block that touch
\* disjoint metadata fields have both returned, the stored block carries
\* both changes; the same holds for two update_channel calls on one channel
\* of which one sets the title and the other the description.
C30_DisjointUpdatesBothPresent ==
    \A p, q \in Procs :
        (/\ p # q
         /\ procs[p].pc = "done" /\ procs[q].pc = "done"
         /\ procs[p].result.tag = "Ok" /\ procs[q].result.tag = "Ok") =>
            /\ (/\ procs[p].op = "update_block" /\ procs[q].op = "update_block"
                /\ procs[p].block_id = procs[q].block_id
                /\ C30_Touched(procs[p].block_update)
                       \cap C30_Touched(procs[q].block_update) = {}) =>
                   \A f \in C30_Touched(procs[p].block_update) :
                       block_rows[procs[p].block_id][f] =
                           apply(procs[p].block_update[f][1], None)
            /\ (/\ procs[p].op = "update_channel"
                /\ procs[q].op = "update_channel"
                /\ procs[p].channel_id = procs[q].channel_id
                /\ procs[p].channel_update.title # None
                /\ procs[p].channel_update.description = Keep
                /\ procs[q].channel_update.title = None
                /\ procs[q].channel_update.description # Keep) =>
                   /\ channel_rows[procs[p].channel_id].title =
                          procs[p].channel_update.title[1]
                   /\ channel_rows[procs[p].channel_id].description =
                          apply(procs[q].channel_update.description, None)

\* C21: a create_channel, update_channel, create_block, create_blocks,
\* update_block, connect_block or connect_blocks call that returns
\* InvalidInput has written nothing: the channel, block and connection
\* stores are exactly as they were before the call.
C21_InvalidInputWritesNothing ==
    [][\A p \in SeqProcs :
          (/\ procs[p].pc = "idle"
           /\ procs'[p].pc = "done"
           /\ procs'[p].result.tag = "InvalidInput") =>
              /\ procs'[p].op \in {"create_channel", "update_channel",
                                   "create_block", "create_blocks",
                                   "update_block", "connect_block",
                                   "connect_blocks"}
              /\ UNCHANGED <<blocks, block_rows, channels, channel_rows,
                             connections>>
      ]_vars

C21_Witness ==
    \E p \in SeqProcs :
        /\ procs[p].op = "connect_blocks"
        /\ procs[p].pc = "done"
        /\ procs[p].result.tag = "InvalidInput"
        /\ Len(procs[p].block_ids) = 2
        /\ ~HasConnection(connections, procs[p].block_ids[1],
                          procs[p].channel_id)

\* the TauriError code that stands for one DomainError case only
C22_CodeOf(err) ==
    CASE err.kind = "ChannelNotFound" -> "CHANNEL_NOT_FOUND"
      [] err.kind = "BlockNotFound" -> "BLOCK_NOT_FOUND"
      [] err.kind = "ConnectionNotFound" -> "CONNECTION_NOT_FOUND"
      [] err.kind = "InvalidInput" -> "VALIDATION_ERROR"
      [] err.kind = "Repository" /\ err.args[1].kind = "Duplicate" ->
            "DUPLICATE_ERROR"
      [] OTHER -> "NONE"

\* C22: the TauriError made from a DomainError keeps the cases apart:
\* ChannelNotFound and BlockNotFound give CHANNEL_NOT_FOUND and
\* BLOCK_NOT_FOUND with entity_id the missing id, ConnectionNotFound gives
\* CONNECTION_NOT_FOUND, InvalidInput gives VALIDATION_ERROR with the message
\* unchanged and no entity_id, Repository(Duplicate) gives DUPLICATE_ERROR,
\* and no other error gives any of these five codes.
C22_ErrorCasesKeptApart ==
    \A p \in Procs :
        (procs[p].op = "into" /\ procs[p].pc = "done") =>
            LET err == procs[p].row[1]
                t == procs[p].result.val[1]
            IN  /\ C22_CodeOf(err) # "NONE" => t.code = C22_CodeOf(err)
                /\ C22_CodeOf(err) = "NONE" =>
                       t.code \notin {"CHANNEL_NOT_FOUND", "BLOCK_NOT_FOUND",
                                      "CONNECTION_NOT_FOUND",
                                      "VALIDATION_ERROR", "DUPLICATE_ERROR"}
                /\ err.kind \in {"ChannelNotFound", "BlockNotFound"} =>
                       t.entity_id = Some(err.args[1])
                /\ err.kind = "InvalidInput" =>
                       t.message = err.args[1] /\ t.entity_id = None

C22_Witness ==
    \E p, q \in Procs :
        /\ procs[p].op = "into" /\ procs[p].pc = "done"
        /\ procs[q].op = "into" /\ procs[q].pc = "done"
        /\ procs[p].row[1].kind = "Repository"
        /\ procs[p].row[1].args[1].kind = "Duplicate"
        /\ procs[p].result.val[1].code = "DUPLICATE_ERROR"
        /\ procs[q].row[1].kind = "InvalidInput"
        /\ procs[q].result.val[1].code = "VALIDATION_ERROR"

\* the listings of all stored channels by creation time, newest first
C25_NewestFirst ==
    {s \in IterationOrders(channel_rows) :
        \A i, j \in 1..Len(s) :
            i < j => channel_rows[s[i]].created_at
                         >= channel_rows[s[j]].created_at}

\* C25: the page list_channels(limit, offset) returns has total the number
\* of stored channels, items the stored channels ordered by creation time
\* descending with the first offset skipped and at most limit taken, and
\* has_next true exactly when offset plus the number of items is less than
\* total.
C25_ListChannelsPage ==
    \A p \in SeqProcs :
        (procs[p].op = "list_channels" /\ procs[p].pc = "done") =>
            LET page == procs[p].result.val[1]
                limit == procs[p].i
                offset == procs[p].pos[1]
                total == Cardinality(channels)
                n == IF offset >= total THEN 0
                     ELSE IF total - offset < limit THEN total - offset
                     ELSE limit
            IN  /\ procs[p].result.tag = "Ok"
                /\ page.total = total
                /\ Len(page.items) = n
                /\ \E s \in C25_NewestFirst :
                       \A i \in 1..n :
                           page.items[i] = channel_rows[s[offset + i]]
                /\ has_next(page) <=> offset + n < total

C25_Witness ==
    \E p \in SeqProcs :
        /\ procs[p].op = "list_channels" /\ procs[p].pc = "done"
        /\ procs[p].pos[1] = 1
        /\ Len(procs[p].result.val[1].items) = 1
        /\ Cardinality(channels) = 2
        /\ \E a, b \in channels :
               channel_rows[a].created_at < channel_rows[b].created_at
        /\ ~has_next(procs[p].result.val[1])

\* s holds a piece that is not a space
C23_NonBlank(s) == \E i \in 1..Len(s) : s[i] # " "

\* the category word of a media variant
C23_Prefix(variant) ==
    CASE variant = "Image" -> "image"
      [] variant = "Video" -> "video"
      [] variant = "Audio" -> "audio"

\* C23: validate_block_content accepts an Image, Video or Audio content
\* exactly when its file_path is non-blank, contains no '..' and does not
\* start with '/' or '\', its mime_type is non-blank and starts with the
\* variant's own prefix, its original_url when present passes validate_url,
\* and each optional text field is absent, empty or holds a non-whitespace
\* character; otherwise it returns InvalidInput.
C23_MediaContentAccepted ==
    \A p \in SeqProcs :
        (/\ procs[p].op = "validate_block_content"
         /\ procs[p].pc = "done"
         /\ procs[p].row[1].variant \in {"Image", "Video", "Audio"}) =>
            LET content == procs[p].row[1]
                path == content.file_path[1]
                mime == content.mime_type[1]
                accepted ==
                    /\ C23_NonBlank(path)
                    /\ ~\E i \in 1..(Len(path) - 1) :
                           path[i] = "." /\ path[i + 1] = "."
                    /\ path[1] \notin {"/", "\\"}
                    /\ C23_NonBlank(mime)
                    /\ Len(mime) >= 2
                    /\ mime[1] = C23_Prefix(content.variant)
                    /\ mime[2] = "/"
                    /\ \/ content.original_url = None
                       \/ validate_url(content.original_url[1]) = "Ok"
                    /\ \A f \in {"alt_text", "title", "artist"} :
                           \/ content[f] = None
                           \/ content[f][1] = <<>>
                           \/ C23_NonBlank(content[f][1])
            IN  procs[p].result.tag =
                    IF accepted THEN "Ok" ELSE "InvalidInput"

C23_Witness ==
    \E p \in SeqProcs :
        /\ procs[p].op = "validate_block_content"
        /\ procs[p].pc = "done"
        /\ procs[p].row[1].variant = "Audio"
        /\ procs[p].row[1].file_path = Some(<<"\\", "a">>)
        /\ procs[p].row[1].mime_type = Some(<<"audio", "/", "png">>)
        /\ procs[p].row[1].original_url = None
        /\ procs[p].row[1].title = None
        /\ procs[p].row[1].artist = Some(<<"a">>)
        /\ procs[p].result.tag = "InvalidInput"

\* C24: validate_url accepts a string exactly when it is not blank, parses
\* as a URL, has scheme http or https and has a host; every other input
\* (blank, unparsable, another scheme such as ftp, or no host) yields
\* InvalidInput. An accepted string begins, after its leading spaces, with
\* http: or https:.
C24_ValidateUrlAccepts ==
    \A p \in SeqProcs :
        (procs[p].op = "validate_url" /\ procs[p].pc = "done") =>
            LET url_str == procs[p].text
                parsed == Url_parse(url_str)
                accepted ==
                    /\ \E i \in 1..Len(url_str) : url_str[i] # " "
                    /\ parsed.ok
                    /\ parsed.scheme \in {<<"http">>, <<"https">>}
                    /\ parsed.host # None
            IN  /\ procs[p].result.tag =
                       IF accepted THEN "Ok" ELSE "InvalidInput"
                /\ procs[p].result.tag = "Ok" =>
                       /\ Len(TrimStart(url_str)) >= 3
                       /\ TrimStart(url_str)[1] \in {"http", "https"}
                       /\ TrimStart(url_str)[2] = ":"

C24_Witness ==
    \E p \in SeqProcs :
        /\ procs[p].op = "validate_url" /\ procs[p].pc = "done"
        /\ procs[p].text = <<"ftp", ":", "/", "x">>
        /\ Url_parse(procs[p].text).ok
        /\ procs[p].result.tag = "InvalidInput"

\* C26: import_from_url never stores a download larger than
\* MAX_DOWNLOAD_SIZE: an oversize response (a media file) to an http or
\* https request is rejected with FileTooLarge and no file is written,
\* whether or not the server sent a Content-Length header, and a URL whose
\* scheme is not http or https is rejected as an invalid URL.
C26_DownloadSizeBounded ==
    \A p \in Procs :
        (procs[p].op = "import_from_url" /\ procs[p].pc = "done") =>
            LET response == procs[p].row[1]
                parsed_url == Url_parse(procs[p].text)
                requested == /\ parsed_url.ok
                             /\ parsed_url.scheme \in {<<"http">>, <<"https">>}
            IN  /\ procs[p].result.tag = "Ok" =>
                       procs[p].result.val[1] <= MAX_DOWNLOAD_SIZE
                /\ (/\ requested
                    /\ response.success
                    /\ response.supported_type
                    /\ response.body > MAX_DOWNLOAD_SIZE) =>
                       /\ procs[p].result.tag = "FileTooLarge"
                       /\ procs[p].result.val = <<>>
                /\ ~requested => procs[p].result.tag = "InvalidUrl"

\* the rows of a connections table satisfy its foreign keys and its key
C29_TableConstraints ==
    /\ \A i \in 1..Len(connections) :
           /\ connections[i].block_id \in blocks
           /\ connections[i].channel_id \in channels
    /\ \A i, j \in 1..Len(connections) :
           i # j => ~SamePair(connections[i], connections[j].block_id,
                              connections[j].channel_id)

\* after the step the in-memory stores answer get_connection and
\* next_position as the SQLite table conns does
C29_SameAnswers(conns) ==
    /\ \A b \in KnownBlockIds, c \in KnownChannelIds :
           RepoGetConnection(connections', b, c)
               = SqliteGetConnection(conns, b, c)
    /\ \A c \in KnownChannelIds, checks \in BOOLEAN :
           RepoNextPosition(connections', c, checks)
               = SqliteNextPosition(conns, c, checks)

\* C29: the in-memory and the SQLite repositories are interchangeable behind
\* GardenService: from stores that both can hold, the repository call of a
\* delete_block or delete_channel has the same outcome in both, and
\* afterwards get_connection and next_position give the same answers.
C29_InMemoryAndSqliteAgree ==
    [][\A p \in Procs :
          /\ (/\ procs[p].op = "delete_block"
              /\ procs[p].pc = "delete"
              /\ procs'[p].pc = "done"
              /\ C29_TableConstraints) =>
                 LET r == SqliteDeleteBlock(blocks, connections,
                                            procs[p].block_id)
                 IN  /\ (procs'[p].result.tag = "Ok") = (r.err = "Ok")
                     /\ blocks' = r.blocks
                     /\ C29_SameAnswers(r.conns)
          /\ (/\ procs[p].op = "delete_channel"
              /\ procs[p].pc = "delete"
              /\ procs'[p].pc = "done"
              /\ C29_TableConstraints) =>
                 LET r == SqliteDeleteChannel(channels, connections,
                                              procs[p].channel_id)
                 IN  /\ (procs'[p].result.tag = "Ok") = (r.err = "Ok")
                     /\ channels' = r.channels
                     /\ C29_SameAnswers(r.conns)
      ]_vars

\* C31: a connect_block call whose insert succeeded returns Ok with the
\* connection it wrote (the given block, channel and resolved position),
\* also when a disconnect_block or reorder_block for the same pair runs
\* between its insert and its re-fetch.
C31_ConnectReturnsWhatItWrote ==
    [][\A p \in Procs :
          (/\ procs[p].op = "connect_block"
           /\ procs[p].pc = "refetch"
           /\ procs'[p].pc = "done") =>
              /\ procs'[p].result.tag = "Ok"
              /\ procs'[p].result.val =
                     <<Connection(procs[p].block_id, procs[p].channel_id,
                                  procs[p].pos[1])>>
      ]_vars

\* C32: in every reachable state the three connection reads agree: block b
\* appears in get_blocks_in_channel(c) if and only if get_connection(b, c)
\* returns a connection, if and only if channel c appears in
\* get_channels_for_block(b).
C32_ReadsAgree ==
    \A b \in KnownBlockIds, c \in KnownChannelIds :
        LET in_channel ==
                \E i \in 1..Len(RepoGetBlocksInChannel(connections, blocks, c)) :
                    RepoGetBlocksInChannel(connections, blocks, c)[i].block_id
                        = b
            connected == RepoGetConnection(connections, b, c) # <<>>
            of_block ==
                \E i \in 1..Len(RepoGetChannelsForBlock(connections, channels,
                                                        b)) :
                    RepoGetChannelsForBlock(connections, channels, b)[i] = c
        IN  /\ in_channel <=> connected
            /\ connected <=> of_block

\* C33: a block stored by create_block or create_blocks carries the metadata
\* of its NewBlock: source_url, source_title, creator, original_date and
\* notes of the stored block equal the fields of the NewBlock.
C33_StoredBlockCarriesNewBlockMetadata ==
    [][\A p \in Procs :
          (/\ procs[p].pc = "idle"
           /\ procs'[p].pc = "done"
           /\ procs'[p].result.tag = "Ok") =>
              /\ procs'[p].op = "create_block" =>
                     StoredMetadata(block_rows'[procs'[p].result.val[1]])
                         = procs'[p].row[1]
              /\ procs'[p].op = "create_blocks" =>
                     \A k \in 1..Len(procs'[p].result.val) :
                         StoredMetadata(
                             block_rows'[procs'[p].result.val[k].id])
                             = procs'[p].row[1][k]
      ]_vars

\* C34: position arithmetic stays within i32 and never wraps: next_position,
\* connect_block and connect_blocks never abort on an overflow; the position
\* that next_position returns, and the one a connect_block without a
\* position writes, is above every position of the channel, also when the
\* largest one is 2147483647; and the positions that connect_blocks assigns
\* ascend from the start without wrapping.
C34_PositionArithmeticNeverOverflows ==
    [][\A p \in Procs :
          /\ \A op \in {"next_position", "connect_block", "connect_blocks"} :
                 Returns(p, op) => procs'[p].result.tag # "Panic"
          /\ (Returns(p, "next_position") /\ procs'[p].result.tag = "Ok") =>
                 \A i \in 1..Len(connections) :
                     connections[i].channel_id = procs'[p].channel_id =>
                         connections[i].position < procs'[p].result.val[1]
          /\ (/\ Returns(p, "connect_block")
              /\ procs'[p].result.tag = "Ok"
              /\ procs'[p].position = None) =>
                 \A i \in 1..Len(connections) :
                     connections[i].channel_id = procs'[p].channel_id =>
                         connections[i].position
                             < procs'[p].result.val[1].position
          /\ (Returns(p, "connect_blocks") /\ procs'[p].result.tag = "Ok") =>
                 \A k \in (Len(connections) + 1)..(Len(connections') - 1) :
                     connections'[k].position < connections'[k + 1].position
      ]_vars

\* C35: in the SQLite adapter a block whose content payload cannot be
\* decoded reaches the service as RepoError::Serialization, not as
\* RepoError::Database.
C35_UndecodableContentIsSerialization ==
    \A p \in Procs :
        (/\ procs[p].op = "sqlite_get_block"
         /\ procs[p].pc = "done"
         /\ ~serde_json_from_str(procs[p].row[1].content_json).ok) =>
            /\ procs[p].result.tag = "Err"
            /\ procs[p].result.val[1].kind = "Repository"
            /\ procs[p].result.val[1].args[1].kind = "Serialization"

\* C36: reading a row with a stored timestamp that is not valid RFC 3339
\* fails, it never returns a block with a default or coerced time, and the
\* error the service receives is of another kind than the one any other
\* database failure arrives as.
C36_InvalidDatetimeStaysDistinct ==
    \A p \in Procs :
        (/\ procs[p].op = "sqlite_get_block"
         /\ procs[p].pc = "done"
         /\ serde_json_from_str(procs[p].row[1].content_json).ok
         /\ \/ ~parse_datetime(procs[p].row[1].created_at, "created_at").ok
            \/ ~parse_datetime(procs[p].row[1].updated_at, "updated_at").ok) =>
            /\ procs[p].result.tag = "Err"
            /\ procs[p].result.val[1].kind = "Repository"
            /\ \A err \in DbErrors :
                   err.kind # "InvalidDatetime" =>
                       RepoError_from_DbError(err).kind
                           # procs[p].result.val[1].args[1].kind

\* C37: for a Page with limit > 0, page_number() is the floor of
\* offset / limit and total_pages() the ceiling of total / limit; with
\* limit = 0 they are 0 and 1; has_prev() is true exactly when offset > 0.
C37_PageArithmetic ==
    \A p \in Procs :
        (procs[p].op = "page" /\ procs[p].pc = "done") =>
            LET page == procs[p].row[1]
                r == procs[p].result.val[1]
            IN  /\ procs[p].result.tag = "Ok"
                /\ page.limit > 0 =>
                       /\ r.page_number * page.limit <= page.offset
                       /\ page.offset < (r.page_number + 1) * page.limit
                       /\ r.total_pages * page.limit >= page.total
                       /\ r.total_pages > 0 =>
                              (r.total_pages - 1) * page.limit < page.total
                       /\ r.total_pages >= 0
                /\ page.limit = 0 => r.page_number = 0 /\ r.total_pages = 1
                /\ r.has_prev <=> page.offset > 0

\* a page in the middle with a partial last page (offset 3, limit 2, total
\* 5: page 1 of 3) next to a page with limit 0 and a positive offset
C37_Witness ==
    /\ procs["p1"].op = "page" /\ procs["p1"].pc = "done"
    /\ procs["p1"].row[1] = Page_new(<<>>, 5, 3, 2)
    /\ procs["p1"].result.val[1]
           = [page_number |-> 1, total_pages |-> 3, has_prev |-> TRUE]
    /\ procs["p2"].op = "page" /\ procs["p2"].pc = "done"
    /\ procs["p2"].row[1] = Page_new(<<>>, 5, 3, 0)
    /\ procs["p2"].result.val[1]
           = [page_number |-> 0, total_pages |-> 1, has_prev |-> TRUE]

\* C38: channel_list calls the service with limit = min(requested, 100),
\* or 20 when no limit is given, and with offset = the requested offset, or
\* 0 when none is given; the page it returns has at most limit items and so
\* never more than 100.
C38_ChannelListLimit ==
    \A p \in Procs :
        (procs[p].op = "channel_list" /\ procs[p].pc = "done") =>
            LET page == procs[p].result.val[1]
                limit == procs[p].position
                offset == procs[p].pos
            IN  /\ procs[p].result.tag = "Ok"
                /\ limit = None => page.limit = 20
                /\ limit # None /\ limit[1] <= 100 => page.limit = limit[1]
                /\ limit # None /\ limit[1] > 100 => page.limit = 100
                /\ offset = None => page.offset = 0
                /\ offset # None => page.offset = offset[1]
                /\ Len(page.items) <= page.limit
                /\ Len(page.items) <= 100

\* a request for 101 channels answered with limit 100 and every stored
\* channel
C38_Witness ==
    /\ procs["p1"].op = "channel_list" /\ procs["p1"].pc = "done"
    /\ procs["p1"].position = Some(101)
    /\ procs["p1"].pos = None
    /\ procs["p1"].result.val[1].limit = 100
    /\ Len(procs["p1"].result.val[1].items) = MaxChannels

====
